---------------------------- MODULE Spec2Model ----------------------------
(***************************************************************************)
(* A model of the guardian content filter:                                 *)
(*   - the Aho-Corasick automaton of internal/algorithm/ac_automaton.go,   *)
(*   - the ContentFilter orchestrator of internal/filter/content_filter.go *)
(*     (Filter / doFilter / updateWordDatabase / whitelist mutation),      *)
(*   - the result cache it talks to (interface only: Get / Set / Clear).   *)
(*                                                                         *)
(* Strings are sequences of one-character strings, so that iteration by    *)
(* rune, lower-casing, whitespace splitting and substring tests are        *)
(* computed and not assumed.                                               *)
(***************************************************************************)
EXTENDS Integers, Sequences, FiniteSets, TLC

(***************************************************************************)
(* Bounds of the model.                                                    *)
(***************************************************************************)
MaxAdds    == 2   \* AddWord calls between two Clear calls (automaton spec)
MaxBuilds  == 2   \* BuildFailPointers calls between two Clear calls
MaxTextLen == 3   \* length of the texts searched in the automaton spec
MaxCalls   == 3   \* Filter calls started in one behaviour
MaxUpdates == 1   \* updateWordDatabase calls started after construction
MaxWlOps   == 2   \* AddToWhitelist / RemoveFromWhitelist calls
MaxConcWlOps == 1 \* the same, in the behaviours that mix them with updates and Filter calls
MaxOps     == 4   \* calls of the filter's methods started in one behaviour
MaxSeqOps  == 3   \* the same, where every call returns before the next starts

(***************************************************************************)
(* Characters and strings.                                                 *)
(***************************************************************************)
CharOrder == <<"a", "b", "c", " ", "A">>
Chars     == {CharOrder[i] : i \in 1..Len(CharOrder)}

\* unicode.ToLower on one rune of the alphabet
LowerChar(c) == IF c = "A" THEN "a" ELSE c

\* strings.ToLower
ToLower(s) == [i \in 1..Len(s) |-> LowerChar(s[i])]

IsSpace(c) == c = " "

\* strings.Fields: the maximal runs of non-space characters, in order
RECURSIVE FieldsFrom(_, _, _)
FieldsFrom(s, i, cur) ==
    IF i > Len(s)
    THEN IF cur = <<>> THEN <<>> ELSE <<cur>>
    ELSE IF IsSpace(s[i])
         THEN (IF cur = <<>> THEN <<>> ELSE <<cur>>) \o FieldsFrom(s, i + 1, <<>>)
         ELSE FieldsFrom(s, i + 1, Append(cur, s[i]))

Fields(s) == FieldsFrom(s, 1, <<>>)

\* algorithm.NormalizeText: the identity in this version of the code
NormalizeText(text) == text

\* strings.Join(elems, ",") over atoms: the elements with "," between them
RECURSIVE Join(_)
Join(elems) ==
    IF elems = <<>> THEN <<>>
    ELSE IF Len(elems) = 1 THEN <<elems[1]>>
    ELSE <<elems[1], ",">> \o Join(Tail(elems))

SeqRange(s) == {s[i] : i \in 1..Len(s)}

\* all sequences over S of length at most n
RECURSIVE SeqsUpTo(_, _)
SeqsUpTo(S, n) ==
    IF n = 0 THEN {<<>>}
    ELSE LET shorter == SeqsUpTo(S, n - 1)
         IN shorter \cup {Append(s, c) : s \in {x \in shorter : Len(x) = n - 1}, c \in S}

(***************************************************************************)
(* The automaton: a trie whose nodes are named by their character path     *)
(* from the root (children map[rune]*ACNode: node p has child c iff        *)
(* Append(p, c) is a node).                                                *)
(***************************************************************************)
Root    == <<>>
NilNode == <<"nil">>      \* a nil *ACNode

NewNode == [fail |-> NilNode, output |-> <<>>, isEnd |-> FALSE]

\* NewACAutomaton / the tree Clear installs
EmptyTrie == [p \in {Root} |-> NewNode]

Output(word, categories, level) ==
    [Word |-> word, Categories |-> categories, Level |-> level]

HasChild(t, node, char) == Append(node, char) \in DOMAIN t

WordPrefixes(word) == {SubSeq(word, 1, k) : k \in 1..Len(word)}

\* a bug AddWord could have: the output is left on every node of the path
AddWordMarksPath(t, word, categories, level) ==
    IF word = <<>> THEN t
    ELSE [p \in DOMAIN t \cup WordPrefixes(word) |->
            LET n == IF p \in DOMAIN t THEN t[p] ELSE NewNode
            IN IF p \in WordPrefixes(word)
               THEN [n EXCEPT !.isEnd = TRUE,
                              !.output = Append(@, Output(word, categories, level))]
               ELSE n]

\* a bug AddWord could have: the empty word is inserted like any other, on
\* the root
AddWordTakesEmpty(t, word, categories, level) ==
    LET ext == [p \in DOMAIN t \cup WordPrefixes(word) |->
                   IF p \in DOMAIN t THEN t[p] ELSE NewNode]
    IN [ext EXCEPT ![word].isEnd = TRUE,
                   ![word].output = Append(@, Output(word, categories, level))]

AddWord(t, word, categories, level) ==
    IF word = <<>> THEN t
    ELSE LET ext == [p \in DOMAIN t \cup WordPrefixes(word) |->
                        IF p \in DOMAIN t THEN t[p] ELSE NewNode]
         IN [ext EXCEPT ![word].isEnd = TRUE,
                        ![word].output = Append(@, Output(word, categories, level))]

\* the walk of lines 106-116: from node.fail along the failure chain to the
\* first node with a child on char; the root when the chain ends
RECURSIVE FailWalk(_, _, _)
FailWalk(t, fail, char) ==
    IF fail = NilNode THEN Root
    ELSE IF HasChild(t, fail, char) THEN Append(fail, char)
    ELSE FailWalk(t, t[fail].fail, char)

\* a bug the construction could have: the failure chain of the parent is
\* not followed past its first node
ChildFailOneHop(t, node, char) ==
    IF node = Root THEN Root
    ELSE IF t[node].fail # NilNode /\ HasChild(t, t[node].fail, char)
         THEN Append(t[node].fail, char)
         ELSE Root

ChildFail(t, node, char) ==
    IF node = Root THEN Root ELSE FailWalk(t, t[node].fail, char)

\* a bug the merge could have: the failure target's outputs are not appended
LinkChildNoMerge(t, node, char) ==
    LET child == Append(node, char)
    IN [t EXCEPT ![child].fail = ChildFail(t, node, char)]

\* a bug the merge could have: the failure target's outputs are put in front
LinkChildMergeInFront(t, node, char) ==
    LET child == Append(node, char)
        f     == ChildFail(t, node, char)
    IN [t EXCEPT ![child].fail = f,
                 ![child].output = IF f # NilNode THEN t[f].output \o @ ELSE @]

\* the loop body of lines 100-123 for one child
LinkChild(t, node, char) ==
    LET child == Append(node, char)
        f     == ChildFail(t, node, char)
    IN [t EXCEPT ![child].fail = f,
                 ![child].output = IF f # NilNode THEN @ \o t[f].output ELSE @]

\* the children of a node in one order of "range node.children"; the links
\* built do not depend on the order, a child's failure target being a node
\* nearer the root, linked before the child's parent is taken off the queue
ChildChars(t, node) == SelectSeq(CharOrder, LAMBDA c : HasChild(t, node, c))

RECURSIVE LinkChildren(_, _, _)
LinkChildren(t, node, chars) ==
    IF chars = <<>> THEN t
    ELSE LinkChildren(LinkChild(t, node, Head(chars)), node, Tail(chars))

RECURSIVE BuildLoop(_, _)
BuildLoop(t, queue) ==
    IF queue = <<>> THEN t
    ELSE LET node  == Head(queue)
             chars == ChildChars(t, node)
         IN BuildLoop(LinkChildren(t, node, chars),
                      Tail(queue) \o [i \in 1..Len(chars) |-> Append(node, chars[i])])

BuildFailPointers(t) == BuildLoop([t EXCEPT ![Root].fail = NilNode], <<Root>>)

\* lines 137-144: follow failure links while there is no child on char, then
\* move to the child if there is one.  NilNode: a nil node was dereferenced.
RECURSIVE Backtrack(_, _, _)
Backtrack(t, node, char) ==
    IF node = NilNode THEN NilNode
    ELSE IF ~HasChild(t, node, char) /\ node # Root
         THEN Backtrack(t, t[node].fail, char)
         ELSE node

\* a bug the scan could have: no backtracking along the failure links
StepNoBacktrack(t, node, char) ==
    IF HasChild(t, node, char) THEN Append(node, char) ELSE Root

Step(t, node, char) ==
    LET n == Backtrack(t, node, char)
    IN IF n = NilNode THEN NilNode
       ELSE IF HasChild(t, n, char) THEN Append(n, char) ELSE n

\* a bug matchesOptions could have: the level test is dropped
MatchesOptionsNoLevel(output, options) ==
    IF Len(options.Categories) > 0
    THEN \E i \in 1..Len(options.Categories) :
            \E j \in 1..Len(output.Categories) :
                options.Categories[i] = output.Categories[j]
    ELSE TRUE

\* a bug matchesOptions could have: every category of the options is required
MatchesOptionsAllCategories(output, options) ==
    IF output.Level < options.MinLevel THEN FALSE
    ELSE \A i \in 1..Len(options.Categories) :
             \E j \in 1..Len(output.Categories) :
                 options.Categories[i] = output.Categories[j]

matchesOptions(output, options) ==
    IF output.Level < options.MinLevel THEN FALSE
    ELSE IF Len(options.Categories) > 0
         THEN \E i \in 1..Len(options.Categories) :
                 \E j \in 1..Len(output.Categories) :
                     options.Categories[i] = output.Categories[j]
         ELSE TRUE

SearchOptions(categories, minLevel) ==
    [Categories |-> categories, MinLevel |-> minLevel]

\* The result of a search: the outputs, or a nil dereference (panic).
Panic       == [panic |-> TRUE, out |-> <<>>]
Found(outs) == [panic |-> FALSE, out |-> outs]

RECURSIVE SearchFrom(_, _, _, _)
SearchFrom(t, node, text, results) ==
    IF text = <<>> THEN Found(results)
    ELSE LET n == Step(t, node, Head(text))
         IN IF n = NilNode THEN Panic
            ELSE SearchFrom(t, n, Tail(text), results \o t[n].output)

Search(t, text) == SearchFrom(t, Root, text, <<>>)

RECURSIVE SearchWithOptionsFrom(_, _, _, _, _)
SearchWithOptionsFrom(t, node, text, options, results) ==
    IF text = <<>> THEN Found(results)
    ELSE LET n == Step(t, node, Head(text))
         IN IF n = NilNode THEN Panic
            ELSE SearchWithOptionsFrom(t, n, Tail(text), options,
                    results \o SelectSeq(t[n].output,
                                         LAMBDA o : matchesOptions(o, options)))

SearchWithOptions(t, text, options) ==
    SearchWithOptionsFrom(t, Root, text, options, <<>>)

\* a bug Clear could have: the version outlives the patterns
ClearKeepsVersion(root, version) == [root |-> EmptyTrie, version |-> version]

\* Clear: a fresh root, the version reset
Clear(root, version) == [root |-> EmptyTrie, version |-> ""]

\* node.children: the nodes one character below a node
ChildrenOf(t, node) ==
    {p \in DOMAIN t : Len(p) = Len(node) + 1 /\ SubSeq(p, 1, Len(node)) = node}

\* countNodes: one for every child, and the nodes below it
RECURSIVE countNodes(_, _)
RECURSIVE countChildren(_, _)
countChildren(t, children) ==
    IF children = {} THEN 0
    ELSE LET child == CHOOSE c \in children : TRUE
         IN 1 + countNodes(t, child) + countChildren(t, children \ {child})

countNodes(t, node) == countChildren(t, ChildrenOf(t, node))

\* a bug GetNodeCount could have: the root is counted as well
GetNodeCountWithRoot(t) == 1 + countNodes(t, Root)

\* countNodes from the root
GetNodeCount(t) == countNodes(t, Root)


(***************************************************************************)
(* The content filter: results, whitelist test, cache key, doFilter.       *)
(***************************************************************************)
EmptyMap == [k \in {} |-> <<>>]

FilterResult(passed, categories, words, details) ==
    [panic |-> FALSE, Passed |-> passed, Categories |-> categories,
     Words |-> words, Details |-> details]

\* lines 191-196
WhitelistResult ==
    FilterResult(TRUE, <<>>, <<>>, [k \in {<<"reason">>} |-> <<"whitelist">>])

\* lines 213-218
PassResult == FilterResult(TRUE, <<>>, <<>>, EmptyMap)

\* the call did not return: a nil dereference inside it
PanicResult ==
    [panic |-> TRUE, Passed |-> FALSE, Categories |-> <<>>, Words |-> <<>>,
     Details |-> EmptyMap]

\* types.FilterOptions
FilterOptions(enableWhitelist, categories, minLevel) ==
    [EnableWhitelist |-> enableWhitelist, Categories |-> categories,
     MinLevel |-> minLevel, ReplaceMode |-> FALSE]

\* the options Check passes (guardian.go, Check)
DefaultOptions == FilterOptions(TRUE, <<>>, 1)

\* a nil *types.FilterOptions
NilOptions == [nil |-> TRUE]

\* a bug isInWhitelist could have: only the full text is looked up
IsInWhitelistFullTextOnly(wl, text) ==
    ToLower(NormalizeText(text)) \in wl

isInWhitelist(wl, text) ==
    LET normalizedText == ToLower(NormalizeText(text))
        words          == Fields(normalizedText)
    IN \/ normalizedText \in wl
       \/ \E i \in 1..Len(words) : words[i] \in wl

\* lines 189-190: the whitelist branch of doFilter is taken
WhitelistHit(wl, config, text, options) ==
    /\ options # NilOptions
    /\ options.EnableWhitelist
    /\ config.EnableWhitelist
    /\ isInWhitelist(wl, text)

\* a bug removeDuplicates could have: nothing is removed
RemoveDuplicatesKeepsAll(slice) == slice

\* a bug removeDuplicates could have: the last occurrence of an item is the
\* one kept
RECURSIVE RemoveDuplicatesKeepsLast(_)
RemoveDuplicatesKeepsLast(slice) ==
    IF slice = <<>> THEN <<>>
    ELSE LET rest == RemoveDuplicatesKeepsLast(Tail(slice))
         IN IF Head(slice) \in SeqRange(rest) THEN rest ELSE <<Head(slice)>> \o rest

RECURSIVE removeDuplicates(_)
removeDuplicates(slice) ==
    IF slice = <<>> THEN <<>>
    ELSE LET init == removeDuplicates(SubSeq(slice, 1, Len(slice) - 1))
             item == slice[Len(slice)]
         IN IF item \in SeqRange(init) THEN init ELSE Append(init, item)

RECURSIVE Flatten(_)
Flatten(ss) == IF ss = <<>> THEN <<>> ELSE Head(ss) \o Flatten(Tail(ss))

\* fmt.Sprintf("level:%d,categories:%s", Level, strings.Join(Categories, ","))
DetailOf(output) ==
    <<"level:", ToString(output.Level), ",categories:">> \o Join(output.Categories)

\* lines 226-231: details[output.Word] is overwritten by each later output
DetailsOf(outputs) ==
    [w \in {outputs[i].Word : i \in 1..Len(outputs)} |->
        LET last == CHOOSE i \in 1..Len(outputs) :
                        /\ outputs[i].Word = w
                        /\ \A j \in (i + 1)..Len(outputs) : outputs[j].Word # w
        IN DetailOf(outputs[last])]

\* lines 200-242: doFilter after the whitelist branch; options.Categories at
\* line 205 dereferences options
FilterSearch(t, text, options) ==
    IF options = NilOptions THEN PanicResult
    ELSE
    LET normalizedText == NormalizeText(text)
        searchOptions  == SearchOptions(options.Categories, options.MinLevel)
        res            == SearchWithOptions(t, normalizedText, searchOptions)
        outputs        == res.out
    IN IF res.panic THEN PanicResult
       ELSE IF Len(outputs) = 0 THEN PassResult
       ELSE FilterResult(
                FALSE,
                removeDuplicates(Flatten([i \in 1..Len(outputs) |-> outputs[i].Categories])),
                removeDuplicates([i \in 1..Len(outputs) |-> outputs[i].Word]),
                DetailsOf(outputs))

doFilter(t, wl, config, text, options) ==
    IF WhitelistHit(wl, config, text, options)
    THEN WhitelistResult
    ELSE FilterSearch(t, text, options)

BoolStr(b) == IF b THEN "true" ELSE "false"

\* the Go string of a text, which the model holds as its characters
RECURSIVE StringOf(_)
StringOf(text) == IF text = <<>> THEN "" ELSE Head(text) \o StringOf(Tail(text))

\* %v of a []string: the elements as they are, a space between two
RECURSIVE JoinSpace(_)
JoinSpace(elems) ==
    IF elems = <<>> THEN ""
    ELSE IF Len(elems) = 1 THEN elems[1]
    ELSE elems[1] \o " " \o JoinSpace(Tail(elems))

\* fmt.Sprintf("%v", options) for a *FilterOptions: &{true [a b] 1 false}
FormatOptions(options) ==
    "&{" \o BoolStr(options.EnableWhitelist) \o " ["
        \o JoinSpace(options.Categories)
        \o "] " \o ToString(options.MinLevel) \o " " \o BoolStr(options.ReplaceMode) \o "}"

\* a bug generateCacheKey could have: the text is left out of the key
CacheKeyOfOptionsOnly(text, options) ==
    ":" \o (IF options # NilOptions THEN FormatOptions(options) ELSE "")

\* fmt.Sprintf("%s:%s", text, optionsStr), the string that is hashed; the md5
\* digest is taken to be injective
generateCacheKey(text, options) ==
    StringOf(text) \o ":" \o (IF options # NilOptions THEN FormatOptions(options) ELSE "")

\* the result cache (internal/cache), by its interface
CacheHas(c, key) == key \in DOMAIN c
CacheGet(c, key) == c[key]
CacheSet(c, key, value) == [k \in DOMAIN c \cup {key} |-> IF k = key THEN value ELSE c[k]]
CacheClear(c) == EmptyMap

(***************************************************************************)
(* Word databases (types.WordDatabase) the configuration centre serves.    *)
(***************************************************************************)
DB1 ==
    [Version |-> "v1", UpdateTime |-> 1,
     Whitelist |-> <<>>,
     Blacklist |-> << Output(<<"a", "b">>, <<"abuse">>, 3) >>,
     Categories |-> EmptyMap]

DB2 ==
    [Version |-> "v2", UpdateTime |-> 2,
     Whitelist |-> << <<"A", "b">> >>,
     Blacklist |-> << Output(<<"b", "c">>, <<"abuse">>, 2),
                      Output(<<>>, <<"abuse">>, 5) >>,
     Categories |->
        [k \in {"abuse", "politics"} |->
            IF k = "abuse"
            THEN << Output(<<"c">>, <<"abuse">>, 1) >>
            ELSE << Output(<<"c">>, <<"politics">>, 5),
                    Output(<<"a", "b">>, <<"politics">>, 4) >>]]

DBs == <<DB1, DB2>>

\* the orders in which "range wordDB.Categories" may visit the keys
Perms(S) ==
    {f \in [1..Cardinality(S) -> S] : \A i, j \in 1..Cardinality(S) : f[i] = f[j] => i = j}

\* the AddWord calls of lines 91-100, in order, for one order of the map
DBQueue(db, order) ==
    db.Blacklist \o Flatten([i \in 1..Len(order) |-> db.Categories[order[i]]])

\* lines 83-88
DBWhitelist(db) == {ToLower(db.Whitelist[i]) : i \in 1..Len(db.Whitelist)}

RECURSIVE AddWords(_, _)
AddWords(t, queue) ==
    IF queue = <<>> THEN t
    ELSE AddWords(AddWord(t, Head(queue).Word, Head(queue).Categories, Head(queue).Level),
                  Tail(queue))

\* lines 82-103 on the automaton: Clear, the AddWord calls, BuildFailPointers
FullBuild(queue) == BuildFailPointers(AddWords(EmptyTrie, queue))

(***************************************************************************)
(* State.                                                                  *)
(***************************************************************************)
VARIABLES
    nodes,      \* ACAutomaton.root: the trie, by node path
    acVersion,  \* ACAutomaton.version
    added,      \* the AddWord calls made since the last Clear, in order
    builds,     \* the BuildFailPointers calls made since the last Clear
    dirty,      \* an AddWord or Clear was made after the last BuildFailPointers
    acLast,     \* the last search made on the automaton and what it returned
    whitelist,  \* ContentFilter.whitelist: the keys of the map
    version,    \* ContentFilter.version
    lastUpdate, \* ContentFilter.lastUpdate
    cache,      \* ContentFilter.cache: key -> result (unused when caching is off)
    cfg,        \* ContentFilter.config: EnableCache, EnableWhitelist
    mu,         \* ContentFilter.mu: the writer holding it, the readers holding it
    rd,         \* the goroutines calling Filter: position and locals of each
    up,         \* the goroutines calling updateWordDatabase: position and locals of each
    hc,         \* the goroutine calling HealthCheck: position and locals
    batch,      \* the goroutine calling BatchCheck: position and locals
    lru,        \* the result cache: its entries, the most recently used first
    clock,      \* the time, in units of the time-to-live
    tick,       \* the number of cache operations made
    lruLast,    \* the last cache operation and what it returned and removed
    stats,      \* the counters of the cache: hits, misses, evictions
    wlLast,     \* the last whitelist mutation: the method, its argument, the set before it
    checks,     \* the CheckWithOptions calls made one after another: the arguments,
                \* the cache key, whether the cache answered, and the result
    rl,         \* the reload ticker, stopChan, and the positions of the reload
                \* goroutine and of the goroutine calling Close
    srch,       \* the goroutines searching the automaton at once: position and locals
    lk,         \* ContentFilter.mu and ACAutomaton.mu as the methods of the filter use
                \* them: holders and waiting writers, and the position of each caller
    st,         \* the goroutine calling GetStats: position and the map it fills
    pub,        \* the configuration centre: the database it serves, and what each
                \* updater last received from it
    query,      \* the text and options the Filter calls of this behaviour pass
    nCalls,     \* Filter calls started
    nUpdates,   \* updateWordDatabase calls started
    nWlOps,     \* AddToWhitelist / RemoveFromWhitelist calls made
    gen,        \* the generation last published by a writer: the AddWord calls
                \* of its automaton and its whitelist
    wlDirty     \* the whitelist was mutated since the last cache clear

acVars == <<nodes, acVersion, added, builds, dirty>>

fVars == <<whitelist, version, lastUpdate, cache, cfg, mu, rd, up, query,
           nCalls, nUpdates, nWlOps, gen, wlDirty>>

\* the state of the callers of the other operations
\* the result cache on its own
cVars == <<lru, clock, tick, lruLast, stats>>

\* the callers of HealthCheck and BatchCheck, and the cache on its own
oVars == <<hc, batch, cVars>>

\* what the callers of the whitelist methods and of CheckWithOptions record
\* the goroutines searching the automaton directly
\* the callers of GetStats and the configuration centre
qVars == <<st, pub>>

zVars == <<srch, lk, qVars>>

\* the reload loop and Close, and the callers above
yVars == <<rl, zVars>>

wVars == <<wlLast, checks, yVars>>

xVars == <<oVars, wVars>>

vars == <<acVars, acLast, fVars, xVars>>

(***************************************************************************)
(* The automaton on its own: any sequence of AddWord, BuildFailPointers,   *)
(* Search, SearchWithOptions and Clear calls, as the package's tests make. *)
(***************************************************************************)
ACChars == {"a", "b", "c"}

ACPatterns ==
    { Output(<<"a", "b">>, <<"abuse">>, 3),
      Output(<<"b", "c">>, <<"politics">>, 4),
      Output(<<"b">>, <<"abuse", "spam">>, 1),
      Output(<<>>, <<"abuse">>, 5) }

ACTexts == SeqsUpTo(ACChars, MaxTextLen)

ACOptions ==
    { SearchOptions(c, l) :
        c \in {<<>>, <<"spam", "politics">>}, l \in {1, 4} }

NoSearch == [op |-> "none"]

NoResult ==
    FilterResult(FALSE, <<>>, <<>>, [k \in {<<"none">>} |-> <<>>])

NoGen  == [q |-> <<>>, wl |-> {}]
NoPrev == [valid |-> FALSE, res |-> NoResult]

IdleReader ==
    [pc |-> "idle", result |-> NoResult, computed |-> FALSE, searched |-> FALSE,
     wlHit |-> FALSE, g |-> NoGen, quiet |-> FALSE, prev |-> NoPrev, noUpd |-> FALSE,
     wlAtStart |-> {}]

\* the background contexts that call updateWordDatabase: the push callback of
\* startConfigListener and the timer goroutine of startPeriodicReload
Updaters == {"push", "timer"}

IdleUpdater == [pc |-> "idle", db |-> 1, queue |-> <<>>, err |-> "none", n |-> 0]

FreeLock == [writer |-> "none", readers |-> {}]

NumReaders == 2   \* goroutines calling Filter
Readers    == 1..NumReaders

\* a filter that is not in use
\* no HealthCheck call made yet
IdleCheck == [pc |-> "idle", probe |-> "none", count |-> -1, err |-> <<>>, n |-> 0]

\* no BatchCheck call made yet
IdleBatch == [pc |-> "idle", texts |-> <<>>, options |-> DefaultOptions, i |-> 1,
              results |-> <<>>, alone |-> <<>>, ops0 |-> 0]

\* NewContentFilter, lines 35-64: stopChan open, the ticker running with no
\* tick waiting, the reload goroutine at its select, Close not called
IdleLoop == [C |-> 0, ticks |-> 0, ticker |-> "running", stopChan |-> "open",
             loop |-> "select", n0 |-> 0, close |-> "idle"]

NumSearchers == 2   \* goroutines searching the automaton at once
Searchers    == 1..NumSearchers

\* no search started
IdleSearcher == [pc |-> "idle", kind |-> "none", text |-> <<>>, options |-> <<>>,
                 i |-> 1, node |-> <<>>, results |-> <<>>]

NumCallers == 2   \* goroutines calling the methods of the filter at once
Callers    == 1..NumCallers

\* a sync.RWMutex nobody holds or waits for
FreeRWMutex == [writer |-> 0, readers |-> {}, pending |-> {}]

\* both locks free and no call started
IdleLocks == [fmu |-> FreeRWMutex, acmu |-> FreeRWMutex,
              call |-> [c \in Callers |-> [name |-> "none", prog |-> <<>>, pc |-> 1,
                                           state |-> "idle"]]]

\* no GetStats call made yet
IdleStats == [pc |-> "idle", version |-> "", lastUpdate |-> 0, acVersion |-> "",
              nodeCount |-> 0, whitelistSize |-> 0, gen0 |-> <<>>, n |-> 0]

\* the centre serves the database the filter loaded at construction
InitialCentre == [cur |-> 1, got |-> [u \in Updaters |-> [db |-> 0, n |-> -1]]]

NoEntry == [valid |-> FALSE]

NoCacheOp == [op |-> "none", key |-> 0, found |-> FALSE, removed |-> NoEntry]

InitOthers ==
    /\ hc = IdleCheck
    /\ batch = IdleBatch
    /\ lru = <<>>
    /\ clock = 0
    /\ tick = 0
    /\ lruLast = NoCacheOp
    /\ stats = [hits |-> 0, misses |-> 0, evictions |-> 0]
    /\ wlLast = [op |-> "none", word |-> <<>>, before |-> {}]
    /\ checks = <<>>
    /\ rl = IdleLoop
    /\ srch = [s \in Searchers |-> IdleSearcher]
    /\ lk = IdleLocks
    /\ st = IdleStats
    /\ pub = InitialCentre

InitNoFilter ==
    /\ InitOthers
    /\ whitelist = {}
    /\ version = ""
    /\ lastUpdate = 0
    /\ cache = EmptyMap
    /\ cfg = [EnableCache |-> FALSE, EnableWhitelist |-> FALSE]
    /\ mu = FreeLock
    /\ rd = [r \in Readers |-> IdleReader]
    /\ up = [u \in Updaters |-> IdleUpdater]
    /\ query = [text |-> <<>>, options |-> FilterOptions(FALSE, <<>>, 0)]
    /\ nCalls = 0 /\ nUpdates = 0 /\ nWlOps = 0
    /\ gen = NoGen
    /\ wlDirty = FALSE

InitAC ==
    /\ InitNoFilter
    /\ nodes = EmptyTrie
    /\ acVersion = ""
    /\ added = <<>>
    /\ builds = 0
    /\ dirty = TRUE
    /\ acLast = NoSearch

ACAddWord(p) ==
    /\ Len(added) < MaxAdds
    /\ nodes' = AddWord(nodes, p.Word, p.Categories, p.Level)
    /\ added' = Append(added, p)
    /\ dirty' = TRUE
    /\ acLast' = NoSearch
    /\ UNCHANGED <<xVars, acVersion, builds, fVars>>

ACBuildFailPointers ==
    /\ builds < MaxBuilds
    /\ nodes' = BuildFailPointers(nodes)
    /\ builds' = builds + 1
    /\ dirty' = FALSE
    /\ acLast' = NoSearch
    /\ UNCHANGED <<xVars, acVersion, added, fVars>>

ACClear ==
    /\ nodes' = Clear(nodes, acVersion).root
    /\ acVersion' = Clear(nodes, acVersion).version
    /\ added' = <<>>
    /\ builds' = 0
    /\ dirty' = TRUE
    /\ acLast' = NoSearch
    /\ UNCHANGED <<xVars, fVars>>

ACSearch(text) ==
    /\ acLast = NoSearch
    /\ acLast' = [op |-> "Search", text |-> text, res |-> Search(nodes, text)]
    /\ UNCHANGED <<xVars, nodes, acVersion, added, builds, dirty, fVars>>

ACSearchWithOptions(text, options) ==
    /\ acLast = NoSearch
    /\ acLast' = [op |-> "SearchWithOptions", text |-> text, options |-> options,
                  res |-> SearchWithOptions(nodes, text, options)]
    /\ UNCHANGED <<xVars, nodes, acVersion, added, builds, dirty, fVars>>

\* the caller takes the result of its search
ACReturn ==
    /\ acLast # NoSearch
    /\ acLast' = NoSearch
    /\ UNCHANGED <<xVars, nodes, acVersion, added, builds, dirty, fVars>>

NextAC ==
    \/ \E p \in ACPatterns : ACAddWord(p)
    \/ ACBuildFailPointers
    \/ ACClear
    \/ \E text \in ACTexts : ACSearch(text)
    \/ \E text \in ACTexts, options \in ACOptions : ACSearchWithOptions(text, options)
    \/ ACReturn

SpecAC == InitAC /\ [][NextAC]_vars

\* BuildFailPointers ran after the last AddWord / Clear
Built == builds >= 1 /\ ~dirty

(***************************************************************************)
(* SpecSearch: an automaton is filled and built by one goroutine, then     *)
(* searched by several at once, as in TestACAutomatonConcurrentSafety.     *)
(* A search holds the shared lock of the automaton from its first step to  *)
(* its return; its steps are the iterations of its loop over the text.     *)
(***************************************************************************)
SearchPatterns ==
    { Output(<<"a", "b">>, <<"abuse">>, 3),
      Output(<<"b">>, <<"abuse", "spam">>, 1),
      Output(<<"b", "c">>, <<"politics">>, 4) }

SearchTexts == { <<"a", "b", "c">> }

SearchOptionsPool == { SearchOptions(<<"spam", "politics">>, 1) }

NoSearchStarted == \A s \in Searchers : srch[s].pc = "idle"

\* lines 128-132 (157-161): RLock; results := make(...); node := ac.root
SearchStart(s, kind, text, options) ==
    /\ srch[s].pc = "idle"
    /\ srch' = [srch EXCEPT ![s] = [pc |-> "loop", kind |-> kind, text |-> text,
                                    options |-> options, i |-> 1, node |-> Root,
                                    results |-> <<>>]]
    /\ UNCHANGED <<acVars, acLast, fVars, oVars, wlLast, checks, rl, lk, qVars>>

\* a bug the loop could have: no backtracking along the failure links
SearchCharNoBacktrack(s) ==
    /\ srch[s].pc = "loop"
    /\ srch[s].i <= Len(srch[s].text)
    /\ LET n == StepNoBacktrack(nodes, srch[s].node, srch[s].text[srch[s].i])
       IN srch' = [srch EXCEPT ![s].node = n, ![s].i = @ + 1,
                               ![s].results = @ \o nodes[n].output]
    /\ UNCHANGED <<acVars, acLast, fVars, oVars, wlLast, checks, rl, lk, qVars>>

\* lines 134-149 (163-181): one iteration of the loop over the text
SearchChar(s) ==
    /\ srch[s].pc = "loop"
    /\ srch[s].i <= Len(srch[s].text)
    /\ LET n == Step(nodes, srch[s].node, srch[s].text[srch[s].i])
       IN IF n = NilNode
          THEN srch' = [srch EXCEPT ![s].pc = "panicked"]
          ELSE srch' = [srch EXCEPT
                  ![s].node = n,
                  ![s].i = @ + 1,
                  ![s].results =
                     @ \o (IF srch[s].kind = "Search" THEN nodes[n].output
                           ELSE SelectSeq(nodes[n].output,
                                    LAMBDA o : matchesOptions(o, srch[s].options)))]
    /\ UNCHANGED <<acVars, acLast, fVars, oVars, wlLast, checks, rl, lk, qVars>>

\* lines 152 (184): return results, and the deferred RUnlock
SearchReturn(s) ==
    /\ srch[s].pc = "loop"
    /\ srch[s].i > Len(srch[s].text)
    /\ srch' = [srch EXCEPT ![s].pc = "done"]
    /\ UNCHANGED <<acVars, acLast, fVars, oVars, wlLast, checks, rl, lk, qVars>>

NextSearch ==
    \/ NoSearchStarted /\ \E p \in SearchPatterns : ACAddWord(p)
    \/ NoSearchStarted /\ ACBuildFailPointers
    \/ Built /\ \E s \in Searchers, text \in SearchTexts :
                    SearchStart(s, "Search", text, <<>>)
    \/ Built /\ \E s \in Searchers, text \in SearchTexts, options \in SearchOptionsPool :
                    SearchStart(s, "SearchWithOptions", text, options)
    \/ \E s \in Searchers : SearchChar(s)
    \/ \E s \in Searchers : SearchReturn(s)

SpecSearch == InitAC /\ [][NextSearch]_vars

(***************************************************************************)
(* SpecTrie: the construction of the automaton - AddWord,                  *)
(* BuildFailPointers and Clear in any order, and searches - with words of  *)
(* up to three characters that share prefixes and suffixes.                *)
(***************************************************************************)
TriePatterns ==
    { Output(<<"a", "a", "b">>, <<"abuse">>, 1),
      Output(<<"a", "b">>, <<"abuse">>, 1),
      Output(<<"b">>, <<"abuse">>, 1),
      Output(<<"b", "a">>, <<"abuse">>, 1),
      Output(<<>>, <<"abuse">>, 1) }

TrieTexts == { <<"a", "a", "b">>, <<"b", "a", "b">> }

NextTrie ==
    \/ \E p \in TriePatterns : ACAddWord(p)
    \/ ACBuildFailPointers
    \/ ACClear
    \/ \E text \in TrieTexts : ACSearch(text)
    \/ ACReturn

SpecTrie == InitAC /\ [][NextTrie]_vars


(***************************************************************************)
(* The content filter.  Filter calls run in the reader goroutines; the     *)
(* reload timer, the push callback and UpdateWordDatabase run              *)
(* updateWordDatabase; AddToWhitelist / RemoveFromWhitelist run in their   *)
(* caller.  Every step is one region in which the goroutine's view of the  *)
(* shared state cannot change: the cache is reached outside f.mu, the      *)
(* automaton and the whitelist under it.                                   *)
(***************************************************************************)

\* a bug doFilter could have: the shared lock is not taken (or not honoured)
RLockAlwaysGranted(m) == TRUE

\* f.mu.RLock() returns: no writer holds the lock
RLockGranted(m) == m.writer = "none"

\* a bug updateWordDatabase could have: the exclusive lock is not taken
LockAlwaysGranted(m) == TRUE

\* f.mu.Lock() returns: nobody holds the lock
LockGranted(m) == m.writer = "none" /\ m.readers = {}

\* no goroutine is inside updateWordDatabase
NoUpdateRunning == \A u \in Updaters : up[u].pc = "idle"

\* the behaviour may start one more call of a method of the filter
OpsLeft == nCalls + nUpdates + nWlOps < MaxOps

SeqOpsLeft == nCalls + nUpdates + nWlOps < MaxSeqOps

\* the behaviour may start one more whitelist call
WlOpsLeft == nWlOps < MaxConcWlOps

\* no call is in progress
Quiescent == NoUpdateRunning /\ \A r \in Readers : rd[r].pc \in {"idle", "done", "panicked"}

\* Filter, lines 162-169: the call starts and looks its key up in the cache
FilterGet(r) ==
    /\ rd[r].pc \in {"idle", "done"}
    /\ nCalls < MaxCalls
    /\ LET key  == generateCacheKey(query.text, query.options)
           hit  == cfg.EnableCache /\ CacheHas(cache, key)
           prev == IF rd[r].pc = "done" /\ rd[r].noUpd
                   THEN [valid |-> TRUE, res |-> rd[r].result]
                   ELSE NoPrev
       IN rd' = [rd EXCEPT ![r] =
                    [pc |-> IF hit THEN "done" ELSE "compute",
                     result |-> IF hit THEN CacheGet(cache, key) ELSE NoResult,
                     computed |-> FALSE, searched |-> FALSE, wlHit |-> FALSE,
                     g |-> NoGen,
                     quiet |-> NoUpdateRunning /\ ~wlDirty,
                     prev |-> prev, noUpd |-> TRUE,
                     wlAtStart |-> whitelist]]
    /\ nCalls' = nCalls + 1
    /\ UNCHANGED <<xVars, acVars, acLast, whitelist, version, lastUpdate, cache, cfg, mu,
                   up, query, nUpdates, nWlOps, gen, wlDirty>>

\* doFilter, lines 185-198: take the shared lock and test the whitelist; on a
\* hit the call returns from doFilter (and releases the lock) at once
DoFilterWhitelist(r) ==
    /\ rd[r].pc = "compute"
    /\ RLockGranted(mu)
    /\ IF WhitelistHit(whitelist, cfg, query.text, query.options)
       THEN /\ rd' = [rd EXCEPT ![r].pc = "set", ![r].result = WhitelistResult,
                                ![r].computed = TRUE, ![r].wlHit = TRUE, ![r].g = gen]
            /\ mu' = mu
       ELSE /\ rd' = [rd EXCEPT ![r].pc = "search", ![r].g = gen]
            /\ mu' = [mu EXCEPT !.readers = @ \cup {r}]
    /\ UNCHANGED <<xVars, acVars, acLast, whitelist, version, lastUpdate, cache, cfg,
                   up, query, nCalls, nUpdates, nWlOps, gen, wlDirty>>

\* doFilter, lines 200-243: search, assemble the result, release the lock
DoFilterSearch(r) ==
    /\ rd[r].pc = "search"
    /\ LET result == FilterSearch(nodes, query.text, query.options)
       IN rd' = [rd EXCEPT ![r].pc = IF result.panic THEN "panicked" ELSE "set",
                           ![r].result = result,
                           ![r].computed = TRUE, ![r].searched = TRUE]
    /\ mu' = [mu EXCEPT !.readers = @ \ {r}]
    /\ UNCHANGED <<xVars, acVars, acLast, whitelist, version, lastUpdate, cache, cfg,
                   up, query, nCalls, nUpdates, nWlOps, gen, wlDirty>>

\* Filter, lines 174-180: store the result and return it
FilterSet(r) ==
    /\ rd[r].pc = "set"
    /\ cache' = IF cfg.EnableCache
                THEN CacheSet(cache, generateCacheKey(query.text, query.options),
                              rd[r].result)
                ELSE cache
    /\ rd' = [rd EXCEPT ![r].pc = "done"]
    /\ UNCHANGED <<xVars, acVars, acLast, whitelist, version, lastUpdate, cfg, mu,
                   up, query, nCalls, nUpdates, nWlOps, gen, wlDirty>>

\* updateWordDatabase, lines 77-79: take the exclusive lock
UpdateLock(u, d, order) ==
    /\ up[u].pc = "idle"
    /\ up[u].n < MaxUpdates
    /\ LockGranted(mu)
    /\ mu' = [mu EXCEPT !.writer = u]
    /\ up' = [up EXCEPT ![u] = [pc |-> "clear", db |-> d, queue |-> DBQueue(DBs[d], order),
                              err |-> "none", n |-> @.n + 1]]
    /\ nUpdates' = nUpdates + 1
    /\ rd' = [r \in Readers |->
                [rd[r] EXCEPT !.quiet = FALSE, !.noUpd = FALSE, !.prev = NoPrev]]
    /\ UNCHANGED <<xVars, acVars, acLast, whitelist, version, lastUpdate, cache, cfg,
                   query, nCalls, nWlOps, gen, wlDirty>>

\* line 82: f.automaton.Clear()
UpdateClear(u) ==
    /\ up[u].pc = "clear"
    /\ nodes' = Clear(nodes, acVersion).root
    /\ acVersion' = Clear(nodes, acVersion).version
    /\ added' = <<>>
    /\ builds' = 0
    /\ dirty' = TRUE
    /\ up' = [up EXCEPT ![u].pc = "whitelist"]
    /\ UNCHANGED <<xVars, acLast, whitelist, version, lastUpdate, cache, cfg, mu, rd,
                   query, nCalls, nUpdates, nWlOps, gen, wlDirty>>

\* lines 83-88: a fresh whitelist with the lower-cased entries of the database
UpdateWhitelist(u) ==
    /\ up[u].pc = "whitelist"
    /\ whitelist' = DBWhitelist(DBs[up[u].db])
    /\ up' = [up EXCEPT ![u].pc = "add"]
    /\ UNCHANGED <<xVars, acVars, acLast, version, lastUpdate, cache, cfg, mu, rd,
                   query, nCalls, nUpdates, nWlOps, gen, wlDirty>>

\* lines 91-100: one f.automaton.AddWord call
UpdateAddWord(u) ==
    /\ up[u].pc = "add"
    /\ up[u].queue # <<>>
    /\ LET word == Head(up[u].queue)
       IN /\ nodes' = AddWord(nodes, word.Word, word.Categories, word.Level)
          /\ added' = Append(added, word)
    /\ dirty' = TRUE
    /\ up' = [up EXCEPT ![u].queue = Tail(@)]
    /\ UNCHANGED <<xVars, acVersion, builds, acLast, whitelist, version, lastUpdate, cache,
                   cfg, mu, rd, query, nCalls, nUpdates, nWlOps, gen, wlDirty>>

\* a bug updateWordDatabase could have: the failure links are not rebuilt
UpdateSkipsBuild(u) ==
    /\ up[u].pc = "add"
    /\ up[u].queue = <<>>
    /\ up' = [up EXCEPT ![u].pc = "version"]
    /\ UNCHANGED <<xVars, acVars, acLast, whitelist, version, lastUpdate, cache,
                   cfg, mu, rd, query, nCalls, nUpdates, nWlOps, gen, wlDirty>>

\* line 103: f.automaton.BuildFailPointers()
UpdateBuild(u) ==
    /\ up[u].pc = "add"
    /\ up[u].queue = <<>>
    /\ nodes' = BuildFailPointers(nodes)
    /\ builds' = builds + 1
    /\ dirty' = FALSE
    /\ up' = [up EXCEPT ![u].pc = "version"]
    /\ UNCHANGED <<xVars, acVersion, added, acLast, whitelist, version, lastUpdate, cache,
                   cfg, mu, rd, query, nCalls, nUpdates, nWlOps, gen, wlDirty>>

\* lines 104-108: the versions and the update time
UpdateVersion(u) ==
    /\ up[u].pc = "version"
    /\ acVersion' = DBs[up[u].db].Version
    /\ version' = DBs[up[u].db].Version
    /\ lastUpdate' = DBs[up[u].db].UpdateTime
    /\ up' = [up EXCEPT ![u].pc = "cache"]
    /\ UNCHANGED <<xVars, nodes, added, builds, dirty, acLast, whitelist, cache, cfg, mu,
                   rd, query, nCalls, nUpdates, nWlOps, gen, wlDirty>>

\* lines 110-113: f.cache.Clear()
UpdateCacheClear(u) ==
    /\ up[u].pc = "cache"
    /\ cache' = IF cfg.EnableCache THEN CacheClear(cache) ELSE cache
    /\ wlDirty' = FALSE
    /\ up' = [up EXCEPT ![u].pc = "unlock"]
    /\ UNCHANGED <<xVars, acVars, acLast, whitelist, version, lastUpdate, cfg, mu, rd,
                   query, nCalls, nUpdates, nWlOps, gen>>

\* lines 115-119: return; the deferred f.mu.Unlock() publishes the generation
UpdateUnlock(u) ==
    /\ up[u].pc = "unlock"
    /\ mu' = [mu EXCEPT !.writer = "none"]
    /\ up' = [up EXCEPT ![u].pc = "idle", ![u].queue = <<>>]
    /\ gen' = [q |-> added, wl |-> whitelist]
    /\ UNCHANGED <<xVars, acVars, acLast, whitelist, version, lastUpdate, cache, cfg, rd,
                   query, nCalls, nUpdates, nWlOps, wlDirty>>

\* a bug the reload paths could have: the database that failed to load is
\* applied as the zero value it was left at
FailedLoadApplied(u, cause) ==
    /\ up[u].pc = "idle"
    /\ up' = [up EXCEPT ![u].err = cause]
    /\ nodes' = EmptyTrie
    /\ acVersion' = ""
    /\ added' = <<>>
    /\ builds' = 1
    /\ dirty' = FALSE
    /\ whitelist' = {}
    /\ version' = ""
    /\ cache' = EmptyMap
    /\ gen' = [q |-> <<>>, wl |-> {}]
    /\ UNCHANGED <<xVars, acLast, lastUpdate, cfg, mu, rd, query, nCalls, nUpdates, nWlOps,
                   wlDirty>>

\* a load that fails.  The timer goroutine (lines 141-159): loadWordDatabase
\* returns the error of GetWordDatabase - the fetch failed, or the content did
\* not unmarshal - and the goroutine logs it.  The push callback (lines
\* 122-138): json.Unmarshal fails, the callback logs and returns.  Neither
\* reaches updateWordDatabase.
LoadFails(u, cause) ==
    /\ up[u].pc = "idle"
    /\ up' = [up EXCEPT ![u].err = cause]
    /\ UNCHANGED <<xVars, acVars, acLast, whitelist, version, lastUpdate, cache, cfg, mu, rd,
                   query, nCalls, nUpdates, nWlOps, gen, wlDirty>>

\* the ways a load of updater u can fail
LoadErrors(u) == IF u = "timer" THEN {"fetch", "unmarshal"} ELSE {"unmarshal"}

\* a bug AddToWhitelist could have: the word is stored as it was passed
AddToWhitelistVerbatim(word) ==
    /\ nWlOps < MaxWlOps
    /\ LockGranted(mu)
    /\ whitelist' = whitelist \cup {word}
    /\ gen' = [gen EXCEPT !.wl = whitelist']
    /\ wlDirty' = TRUE
    /\ nWlOps' = nWlOps + 1
    /\ wlLast' = [op |-> "add", word |-> word, before |-> whitelist]
    /\ rd' = [r \in Readers |-> [rd[r] EXCEPT !.quiet = FALSE]]
    /\ UNCHANGED <<oVars, checks, yVars, acVars, acLast, version, lastUpdate, cache, cfg, mu, up,
                   query, nCalls, nUpdates>>

\* AddToWhitelist, lines 317-321, under the exclusive lock
AddToWhitelist(word) ==
    /\ nWlOps < MaxWlOps
    /\ LockGranted(mu)
    /\ whitelist' = whitelist \cup {ToLower(word)}
    /\ gen' = [gen EXCEPT !.wl = whitelist']
    /\ wlDirty' = TRUE
    /\ nWlOps' = nWlOps + 1
    /\ wlLast' = [op |-> "add", word |-> word, before |-> whitelist]
    /\ rd' = [r \in Readers |-> [rd[r] EXCEPT !.quiet = FALSE]]
    /\ UNCHANGED <<oVars, checks, yVars, acVars, acLast, version, lastUpdate, cache, cfg, mu, up,
                   query, nCalls, nUpdates>>

\* a bug RemoveFromWhitelist could have: the word is looked up as it was passed
RemoveFromWhitelistVerbatim(word) ==
    /\ nWlOps < MaxWlOps
    /\ LockGranted(mu)
    /\ whitelist' = whitelist \ {word}
    /\ gen' = [gen EXCEPT !.wl = whitelist']
    /\ wlDirty' = TRUE
    /\ nWlOps' = nWlOps + 1
    /\ wlLast' = [op |-> "remove", word |-> word, before |-> whitelist]
    /\ rd' = [r \in Readers |-> [rd[r] EXCEPT !.quiet = FALSE]]
    /\ UNCHANGED <<oVars, checks, yVars, acVars, acLast, version, lastUpdate, cache, cfg, mu, up,
                   query, nCalls, nUpdates>>

\* RemoveFromWhitelist, lines 324-328, under the exclusive lock
RemoveFromWhitelist(word) ==
    /\ nWlOps < MaxWlOps
    /\ LockGranted(mu)
    /\ whitelist' = whitelist \ {ToLower(word)}
    /\ gen' = [gen EXCEPT !.wl = whitelist']
    /\ wlDirty' = TRUE
    /\ nWlOps' = nWlOps + 1
    /\ wlLast' = [op |-> "remove", word |-> word, before |-> whitelist]
    /\ rd' = [r \in Readers |-> [rd[r] EXCEPT !.quiet = FALSE]]
    /\ UNCHANGED <<oVars, checks, yVars, acVars, acLast, version, lastUpdate, cache, cfg, mu, up,
                   query, nCalls, nUpdates>>

\* NewContentFilter, lines 35-64: the filter after construction, with the
\* initial database loaded by loadWordDatabase
InitFilter(texts, options, configs) ==
    /\ \E order \in Perms(DOMAIN DB1.Categories) :
          /\ added = DBQueue(DB1, order)
          /\ nodes = FullBuild(DBQueue(DB1, order))
    /\ builds = 1
    /\ dirty = FALSE
    /\ acVersion = DB1.Version
    /\ acLast = NoSearch
    /\ whitelist = DBWhitelist(DB1)
    /\ version = DB1.Version
    /\ lastUpdate = DB1.UpdateTime
    /\ cache = EmptyMap
    /\ cfg \in configs
    /\ mu = FreeLock
    /\ rd = [r \in Readers |-> IdleReader]
    /\ up = [u \in Updaters |-> IdleUpdater]
    /\ query \in [text : texts, options : options]
    /\ InitOthers
    /\ nCalls = 0 /\ nUpdates = 0 /\ nWlOps = 0
    /\ gen = [q |-> added, wl |-> whitelist]
    /\ wlDirty = FALSE

\* the steps of the calls in progress
UpdateSteps ==
    \/ \E u \in Updaters : UpdateClear(u)
    \/ \E u \in Updaters : UpdateWhitelist(u)
    \/ \E u \in Updaters : UpdateAddWord(u)
    \/ \E u \in Updaters : UpdateBuild(u)
    \/ \E u \in Updaters : UpdateVersion(u)
    \/ \E u \in Updaters : UpdateCacheClear(u)
    \/ \E u \in Updaters : UpdateUnlock(u)

FilterSteps ==
    \/ \E r \in Readers : DoFilterWhitelist(r)
    \/ \E r \in Readers : DoFilterSearch(r)
    \/ \E r \in Readers : FilterSet(r)
    \/ UpdateSteps

(***************************************************************************)
(* Spec: the filter used by one caller at a time (every call returns       *)
(* before the next starts), over a wide choice of texts, options,          *)
(* configurations and whitelist words.                                     *)
(***************************************************************************)
SeqTexts ==
    { <<"c", " ", "a", "b", " ", "c">>,   \* a pattern of DB1 as a token
      <<"c", "a", "b">>,                  \* the pattern inside a token
      <<"a", "b">>,                       \* the pattern as the full text
      <<"A", "b", " ", "a", "b">>,        \* upper case, then the pattern
      <<"b", "c", " ", "a">>,
      <<>> }

SeqOptions ==
    { FilterOptions(w, o[1], o[2]) :
        w \in BOOLEAN, o \in {<< <<>>, 1 >>, << <<"abuse">>, 1 >>, << <<>>, 4 >>} }

Configs == [EnableCache : BOOLEAN, EnableWhitelist : BOOLEAN]

WlWords == { <<"A", "b">>, <<"c">> }

Init == InitFilter(SeqTexts, SeqOptions, Configs)

Next ==
    \/ Quiescent /\ SeqOpsLeft /\ FilterGet(1)
    \/ Quiescent /\ SeqOpsLeft /\ \E d \in DOMAIN DBs :
                          \E order \in Perms(DOMAIN DBs[d].Categories) :
                              UpdateLock("push", d, order)
    \/ Quiescent /\ SeqOpsLeft /\ WlOpsLeft /\ \E w \in WlWords : AddToWhitelist(w)
    \/ Quiescent /\ SeqOpsLeft /\ WlOpsLeft /\ \E w \in WlWords : RemoveFromWhitelist(w)
    \/ FilterSteps

Spec == Init /\ [][Next]_vars

(***************************************************************************)
(* SpecConc: Filter calls of several goroutines, an update and whitelist   *)
(* mutations, interleaved in every way the locks allow.                    *)
(***************************************************************************)
ConcTexts   == { <<"c", " ", "a", "b", " ", "c">> }
ConcOptions == { FilterOptions(TRUE, <<>>, 1) }
ConcConfigs == { [EnableCache |-> TRUE, EnableWhitelist |-> TRUE] }
ConcWlWords == { <<"A", "b">> }

InitConc == InitFilter(ConcTexts, ConcOptions, ConcConfigs)

NextConc ==
    \/ OpsLeft /\ \E r \in Readers : FilterGet(r)
    \/ OpsLeft /\ \E d \in DOMAIN DBs :
                     \E order \in Perms(DOMAIN DBs[d].Categories) :
                           UpdateLock("push", d, order)
    \/ OpsLeft /\ WlOpsLeft /\ \E w \in ConcWlWords : AddToWhitelist(w)
    \/ OpsLeft /\ WlOpsLeft /\ \E w \in ConcWlWords : RemoveFromWhitelist(w)
    \/ FilterSteps

SpecConc == InitConc /\ [][NextConc]_vars

(***************************************************************************)
(* HealthCheck.  An error is the chain of its messages, outermost first:   *)
(* fmt.Errorf("m: %w", err) puts m in front of the chain of err, and       *)
(* err.Error() == "m" holds of the chain <<m>> only.                       *)
(***************************************************************************)
MaxChecks == 2

NoError == <<>>

\* what configClient.GetConfig of the SDK answers for the data id
\* "health_check": its content, that there is no such configuration (the
\* server was reached), or that the server was not reached
ConfigClientOutcomes == {"ok", "config not found", "connection refused"}

\* client.go, GetConfig
ClientGetConfig(outcome) ==
    IF outcome # "ok" THEN <<"failed to get config from nacos", outcome>> ELSE NoError

\* client.go, HealthCheck
ClientHealthCheck(outcome) ==
    LET err == ClientGetConfig(outcome)
    IN IF err # NoError
       THEN IF err = <<"config not found">> THEN NoError ELSE err
       ELSE NoError

\* lines 347-350: the collaborator is probed first
HealthCheckNacos(outcome) ==
    /\ hc.pc \in {"idle", "done"}
    /\ hc.n < MaxChecks
    /\ LET err == ClientHealthCheck(outcome)
       IN hc' = IF err # NoError
                THEN [pc |-> "done", probe |-> outcome, count |-> -1,
                      err |-> <<"nacos health check failed">> \o err, n |-> hc.n + 1]
                ELSE [pc |-> "count", probe |-> outcome, count |-> -1,
                      err |-> NoError, n |-> hc.n + 1]
    /\ UNCHANGED <<acVars, acLast, fVars, wVars, batch, cVars>>

\* lines 352-357: f.automaton.GetNodeCount() is read without f.mu, under
\* the lock of the automaton alone, which an update releases between its calls
HealthCheckCount ==
    /\ hc.pc = "count"
    /\ LET count == GetNodeCount(nodes)
       IN hc' = [hc EXCEPT !.pc = "done", !.count = count,
                           !.err = IF count = 0 THEN <<"automaton is empty">> ELSE NoError]
    /\ UNCHANGED <<acVars, acLast, fVars, wVars, batch, cVars>>

(***************************************************************************)
(* SpecHealth: HealthCheck calls of one goroutine while a push update and  *)
(* a Filter call run.                                                      *)
(***************************************************************************)
InitHealth == InitFilter(ConcTexts, ConcOptions, ConcConfigs)

NextHealth ==
    \/ \E outcome \in ConfigClientOutcomes : HealthCheckNacos(outcome)
    \/ HealthCheckCount
    \/ OpsLeft /\ FilterGet(1)
    \/ OpsLeft /\ \E d \in DOMAIN DBs :
                     \E order \in Perms(DOMAIN DBs[d].Categories) :
                         UpdateLock("push", d, order)
    \/ FilterSteps

SpecHealth == InitHealth /\ [][NextHealth]_vars

(***************************************************************************)
(* BatchCheck and BatchCheckWithOptions of the Guardian facade.            *)
(***************************************************************************)
MaxBatch == 2

BatchTexts == { <<"a", "b">>, <<"c">> }

BatchLists == UNION { [1..n -> BatchTexts] : n \in 0..MaxBatch }

BatchOptions == { FilterOptions(FALSE, <<"abuse">>, 1) }

\* Filter, lines 162-181, as one call made while no update holds the lock:
\* the result it returns and the cache it leaves
Filter(t, wl, config, c, text, options) ==
    LET cacheKey == generateCacheKey(text, options)
    IN IF config.EnableCache /\ CacheHas(c, cacheKey)
       THEN [result |-> CacheGet(c, cacheKey), cache |-> c]
       ELSE LET result == doFilter(t, wl, config, text, options)
            IN [result |-> result,
                cache  |-> IF config.EnableCache /\ ~result.panic
                           THEN CacheSet(c, cacheKey, result) ELSE c]

\* guardian.go 142-143: results := make(..., len(texts)).  alone is what a
\* Filter call of each text on its own returns in the state the batch starts
\* in, ops0 the updates and whitelist mutations made so far.
BatchCheckWithOptions(texts, options) ==
    /\ batch.pc = "idle"
    /\ batch' = [pc |-> "loop", texts |-> texts, options |-> options, i |-> 1,
                 results |-> <<>>,
                 alone |-> [k \in 1..Len(texts) |->
                              Filter(nodes, whitelist, cfg, cache, texts[k], options).result],
                 ops0 |-> nUpdates + nWlOps]
    /\ UNCHANGED <<acVars, acLast, fVars, wVars, hc, cVars>>

\* guardian.go 133-139: every item goes through Check, which passes its
\* default options
BatchCheck(texts) == BatchCheckWithOptions(texts, DefaultOptions)

\* guardian.go 144-146 (135-137): results[i] = g.CheckWithOptions(text, options)
BatchItem ==
    /\ batch.pc = "loop"
    /\ batch.i <= Len(batch.texts)
    /\ LET call == Filter(nodes, whitelist, cfg, cache, batch.texts[batch.i], batch.options)
       IN /\ batch' = [batch EXCEPT !.results = Append(@, call.result), !.i = @ + 1,
                                    !.pc = IF call.result.panic THEN "panicked" ELSE "loop"]
          /\ cache' = call.cache
    /\ UNCHANGED <<acVars, acLast, whitelist, version, lastUpdate, cfg, mu, rd, up, query,
                   nCalls, nUpdates, nWlOps, gen, wlDirty, wVars, hc, cVars>>

\* guardian.go 147 (138): return results
BatchReturn ==
    /\ batch.pc = "loop"
    /\ batch.i > Len(batch.texts)
    /\ batch' = [batch EXCEPT !.pc = "done"]
    /\ UNCHANGED <<acVars, acLast, fVars, wVars, hc, cVars>>

(***************************************************************************)
(* SpecBatch: one batch call; between its items an update or a whitelist   *)
(* mutation may be made, one at a time.                                    *)
(***************************************************************************)
BatchConfigs == [EnableCache : BOOLEAN, EnableWhitelist : {TRUE}]

InitBatch == InitFilter(ConcTexts, ConcOptions, BatchConfigs)

NextBatch ==
    \/ Quiescent /\ \E texts \in BatchLists : BatchCheck(texts)
    \/ Quiescent /\ \E texts \in BatchLists, options \in BatchOptions :
                       BatchCheckWithOptions(texts, options)
    \/ Quiescent /\ BatchItem
    \/ Quiescent /\ BatchReturn
    \/ Quiescent /\ OpsLeft /\ \E d \in DOMAIN DBs :
                       \E order \in Perms(DOMAIN DBs[d].Categories) :
                           UpdateLock("push", d, order)
    \/ Quiescent /\ OpsLeft /\ WlOpsLeft /\ \E w \in ConcWlWords : AddToWhitelist(w)
    \/ UpdateSteps

SpecBatch == InitBatch /\ [][NextBatch]_vars

(***************************************************************************)
(* SpecKey: CheckWithOptions calls made one after another on a filter that *)
(* nothing else touches, with options that differ in every field and in    *)
(* the order of their categories.                                          *)
(***************************************************************************)
MaxKeyCalls == 2

KeyTexts == { <<"a", "b">>, <<"c">> }

KeyOptions ==
    { FilterOptions(w, cats, 1) :
        w \in BOOLEAN,
        cats \in { <<"abuse", "politics">>, <<"politics", "abuse">>, <<"abuse">> } }
    \cup { FilterOptions(TRUE, <<"abuse", "politics">>, 4),
           FilterOptions(TRUE, <<"abuse politics">>, 1) }

\* guardian.go 78-80: return g.filter.Filter(text, options), the whole call
CheckWithOptions(text, options) ==
    /\ Len(checks) < MaxKeyCalls
    /\ LET cacheKey == generateCacheKey(text, options)
           call     == Filter(nodes, whitelist, cfg, cache, text, options)
       IN /\ cache' = call.cache
          /\ checks' = Append(checks,
                              [text |-> text, options |-> options, key |-> cacheKey,
                               wl |-> whitelist,
                               hit |-> cfg.EnableCache /\ CacheHas(cache, cacheKey),
                               result |-> call.result])
    /\ UNCHANGED <<acVars, acLast, whitelist, version, lastUpdate, cfg, mu, rd, up, query,
                   nCalls, nUpdates, nWlOps, gen, wlDirty, wlLast, yVars, oVars>>

\* guardian.go 65-72: Check passes its default options
Check(text) == CheckWithOptions(text, DefaultOptions)

InitKey == InitFilter(ConcTexts, ConcOptions, BatchConfigs)

NextKey ==
    \/ \E text \in KeyTexts, options \in KeyOptions : CheckWithOptions(text, options)
    \/ \E text \in KeyTexts : Check(text)

SpecKey == InitKey /\ [][NextKey]_vars

(***************************************************************************)
(* SpecWl: the whitelist is edited between Check calls, after the database *)
(* that has a whitelist of its own was loaded or without that; the cache   *)
(* is on or off.                                                           *)
(***************************************************************************)
WlCallTexts == { <<"c", " ", "a", "b", " ", "c">> }

WlOpWords == { <<"A", "b">>, <<"a", "b">>, <<"A", " ", "b">> }

InitWl == InitFilter(ConcTexts, ConcOptions, BatchConfigs)

NextWl ==
    \/ NoUpdateRunning /\ \E text \in WlCallTexts : Check(text)
    \/ \E w \in WlOpWords : AddToWhitelist(w)
    \/ \E w \in WlOpWords : RemoveFromWhitelist(w)
    \/ nWlOps = 0 /\ \E order \in Perms(DOMAIN DBs[2].Categories) :
                        UpdateLock("push", 2, order)
    \/ UpdateSteps

SpecWl == InitWl /\ [][NextWl]_vars

(***************************************************************************)
(* The result cache, cache.NewLRUCache(config.CacheSize, 10*time.Minute),  *)
(* on its own: capacity-bounded with least-recently-used eviction, and a   *)
(* fixed time-to-live per entry.  An entry carries the time it was stored  *)
(* at, the number of the operation that last used it and the hits it had.  *)
(* The filter's cache variable is this cache while the capacity is not     *)
(* reached and no time-to-live has passed.                                 *)
(***************************************************************************)
CacheSize == 2

\* 10*time.Minute, in units of ten minutes
TTL == 1

MaxClock == 2

MaxCacheOps == 4

CacheKeys == 1..(CacheSize + 1)

CacheValues == {PassResult, WhitelistResult}

LRUKeys(c) == {c[i].key : i \in 1..Len(c)}

LRUIndex(c, key) == CHOOSE i \in 1..Len(c) : c[i].key = key

\* c without its i-th entry
LRURemove(c, i) == SubSeq(c, 1, i - 1) \o SubSeq(c, i + 1, Len(c))

Expired(e, now) == now - e.storedAt > TTL

Removed(e) == [valid |-> TRUE, entry |-> e]

\* a bug Get could have: a hit renews the time-to-live of the entry
LRUGetRenews(key) ==
    /\ tick < MaxCacheOps
    /\ tick' = tick + 1
    /\ IF key \notin LRUKeys(lru)
       THEN /\ lru' = lru
            /\ lruLast' = [op |-> "get", key |-> key, found |-> FALSE, removed |-> NoEntry]
            /\ stats' = [stats EXCEPT !.misses = @ + 1]
       ELSE LET i == LRUIndex(lru, key)
                e == lru[i]
            IN IF Expired(e, clock)
               THEN /\ lru' = LRURemove(lru, i)
                    /\ lruLast' = [op |-> "get", key |-> key, found |-> FALSE,
                                   removed |-> Removed(e)]
                    /\ stats' = [stats EXCEPT !.misses = @ + 1]
               ELSE /\ lru' = <<[e EXCEPT !.used = tick', !.hits = @ + 1,
                                          !.storedAt = clock]>> \o LRURemove(lru, i)
                    /\ lruLast' = [op |-> "get", key |-> key, found |-> TRUE,
                                   removed |-> NoEntry]
                    /\ stats' = [stats EXCEPT !.hits = @ + 1]
    /\ UNCHANGED <<acVars, acLast, fVars, wVars, hc, batch, clock>>

\* Get(key): a miss when the key is absent; a miss that removes the entry
\* when it has expired; otherwise a hit that makes the entry the most
\* recently used
LRUGet(key) ==
    /\ tick < MaxCacheOps
    /\ tick' = tick + 1
    /\ IF key \notin LRUKeys(lru)
       THEN /\ lru' = lru
            /\ lruLast' = [op |-> "get", key |-> key, found |-> FALSE, removed |-> NoEntry]
            /\ stats' = [stats EXCEPT !.misses = @ + 1]
       ELSE LET i == LRUIndex(lru, key)
                e == lru[i]
            IN IF Expired(e, clock)
               THEN /\ lru' = LRURemove(lru, i)
                    /\ lruLast' = [op |-> "get", key |-> key, found |-> FALSE,
                                   removed |-> Removed(e)]
                    /\ stats' = [stats EXCEPT !.misses = @ + 1]
               ELSE /\ lru' = <<[e EXCEPT !.used = tick', !.hits = @ + 1]>>
                                   \o LRURemove(lru, i)
                    /\ lruLast' = [op |-> "get", key |-> key, found |-> TRUE,
                                   removed |-> NoEntry]
                    /\ stats' = [stats EXCEPT !.hits = @ + 1]
    /\ UNCHANGED <<acVars, acLast, fVars, wVars, hc, batch, clock>>

\* a bug Set could have: on overflow the most recently used of the old
\* entries is removed
LRUSetEvictsNewest(key, value) ==
    /\ tick < MaxCacheOps
    /\ tick' = tick + 1
    /\ LET e == [key |-> key, value |-> value, storedAt |-> clock, used |-> tick',
                 hits |-> 0]
       IN IF key \in LRUKeys(lru)
          THEN /\ lru' = <<e>> \o LRURemove(lru, LRUIndex(lru, key))
               /\ lruLast' = [op |-> "set", key |-> key, found |-> TRUE, removed |-> NoEntry]
               /\ stats' = stats
          ELSE IF Len(lru) + 1 > CacheSize
               THEN /\ lru' = <<e>> \o LRURemove(lru, 1)
                    /\ lruLast' = [op |-> "set", key |-> key, found |-> FALSE,
                                   removed |-> Removed(lru[1])]
                    /\ stats' = [stats EXCEPT !.evictions = @ + 1]
               ELSE /\ lru' = <<e>> \o lru
                    /\ lruLast' = [op |-> "set", key |-> key, found |-> FALSE,
                                   removed |-> NoEntry]
                    /\ stats' = stats
    /\ UNCHANGED <<acVars, acLast, fVars, wVars, hc, batch, clock>>

\* Set(key, value): the entry of the key is stored anew and becomes the most
\* recently used; when a new key exceeds the capacity the least recently
\* used entry is removed
LRUSet(key, value) ==
    /\ tick < MaxCacheOps
    /\ tick' = tick + 1
    /\ LET e == [key |-> key, value |-> value, storedAt |-> clock, used |-> tick',
                 hits |-> 0]
       IN IF key \in LRUKeys(lru)
          THEN /\ lru' = <<e>> \o LRURemove(lru, LRUIndex(lru, key))
               /\ lruLast' = [op |-> "set", key |-> key, found |-> TRUE, removed |-> NoEntry]
               /\ stats' = stats
          ELSE IF Len(lru) + 1 > CacheSize
               THEN /\ lru' = <<e>> \o LRURemove(lru, Len(lru))
                    /\ lruLast' = [op |-> "set", key |-> key, found |-> FALSE,
                                   removed |-> Removed(lru[Len(lru)])]
                    /\ stats' = [stats EXCEPT !.evictions = @ + 1]
               ELSE /\ lru' = <<e>> \o lru
                    /\ lruLast' = [op |-> "set", key |-> key, found |-> FALSE,
                                   removed |-> NoEntry]
                    /\ stats' = stats
    /\ UNCHANGED <<acVars, acLast, fVars, wVars, hc, batch, clock>>

\* Clear()
LRUClear ==
    /\ tick < MaxCacheOps
    /\ tick' = tick + 1
    /\ lru' = <<>>
    /\ lruLast' = [op |-> "clear", key |-> 0, found |-> FALSE, removed |-> NoEntry]
    /\ UNCHANGED <<acVars, acLast, fVars, wVars, hc, batch, clock, stats>>

\* time passes
ClockTick ==
    /\ clock < MaxClock
    /\ clock' = clock + 1
    /\ UNCHANGED <<acVars, acLast, fVars, wVars, hc, batch, lru, tick, lruLast, stats>>

(***************************************************************************)
(* SpecCache: any sequence of Get, Set and Clear while time passes.        *)
(***************************************************************************)
InitCache == InitAC

NextCache ==
    \/ \E key \in CacheKeys : LRUGet(key)
    \/ \E key \in CacheKeys, value \in CacheValues : LRUSet(key, value)
    \/ LRUClear
    \/ ClockTick

SpecCache == InitCache /\ [][NextCache]_vars

(***************************************************************************)
(* SpecNil: the filter used by one caller at a time, as in Spec, by a      *)
(* caller that may pass no options.                                        *)
(***************************************************************************)
NilTexts == { <<"c", " ", "a", "b", " ", "c">>, <<"c">>, <<>> }

NilOptionsPool == { NilOptions, FilterOptions(TRUE, <<>>, 1), FilterOptions(FALSE, <<>>, 4) }

InitNil == InitFilter(NilTexts, NilOptionsPool, Configs)

SpecNil == InitNil /\ [][Next]_vars

(***************************************************************************)
(* SpecReload: the push callback and the reload timer, each loading a      *)
(* database (and failing to, at times) while Filter is called.             *)
(***************************************************************************)
InitReload == InitFilter(ConcTexts, ConcOptions, ConcConfigs)

NextReload ==
    \/ OpsLeft /\ FilterGet(1)
    \/ OpsLeft /\ \E u \in Updaters, d \in DOMAIN DBs :
                     \E order \in Perms(DOMAIN DBs[d].Categories) : UpdateLock(u, d, order)
    \/ \E u \in Updaters : \E cause \in LoadErrors(u) : LoadFails(u, cause)
    \/ FilterSteps

SpecReload == InitReload /\ [][NextReload]_vars

(***************************************************************************)
(* SpecPublish: the configuration centre publishes databases.  A           *)
(* publication is pushed to the callback of startConfigListener; the       *)
(* reload timer fetches what the centre serves at that time.  Each then    *)
(* calls updateWordDatabase with the database it holds.                    *)
(***************************************************************************)
PublishFrame ==
    UNCHANGED <<acVars, acLast, fVars, oVars, wlLast, checks, rl, srch, lk, st>>

\* the load of updater u has its database and has not called updateWordDatabase
Loaded(u) == pub.got[u].n = up[u].n

\* the centre publishes database d; the callback (lines 123-137) receives its
\* content and unmarshals it
Publish(d) ==
    /\ d # pub.cur
    /\ up["push"].pc = "idle"
    /\ up["push"].n < MaxUpdates
    /\ ~Loaded("push")
    /\ pub' = [pub EXCEPT !.cur = d, !.got["push"] = [db |-> d, n |-> up["push"].n]]
    /\ PublishFrame

\* loadWordDatabase, line 68: the tick's GetWordDatabase returns what the
\* centre serves now
TimerFetch ==
    /\ up["timer"].pc = "idle"
    /\ up["timer"].n < MaxUpdates
    /\ ~Loaded("timer")
    /\ pub' = [pub EXCEPT !.got["timer"] = [db |-> pub.cur, n |-> up["timer"].n]]
    /\ PublishFrame

\* line 73 and line 134: updateWordDatabase with the database that was loaded
ApplyLoaded(u) ==
    /\ Loaded(u)
    /\ \E order \in Perms(DOMAIN DBs[pub.got[u].db].Categories) :
           UpdateLock(u, pub.got[u].db, order)

InitPublish == InitFilter(ConcTexts, ConcOptions, ConcConfigs)

NextPublish ==
    \/ \E d \in DOMAIN DBs : Publish(d)
    \/ TimerFetch
    \/ \E u \in Updaters : ApplyLoaded(u)
    \/ UpdateSteps

SpecPublish == InitPublish /\ [][NextPublish]_vars

(***************************************************************************)
(* GetStats, lines 293-309: the four values are read one after another     *)
(* under f.mu.RLock.                                                       *)
(***************************************************************************)
MaxStats == 2

StatsFrame ==
    UNCHANGED <<acVars, acLast, whitelist, version, lastUpdate, cache, cfg, rd, up, query,
                nCalls, nUpdates, nWlOps, gen, wlDirty, oVars, wlLast, checks, rl, srch,
                lk, pub>>

\* a bug GetStats could have: it does not take the lock
GetStatsUnlocked ==
    /\ st.pc \in {"idle", "done"}
    /\ st.n < MaxStats
    /\ st' = [IdleStats EXCEPT !.pc = "version", !.gen0 = gen, !.n = st.n + 1]
    /\ UNCHANGED mu
    /\ StatsFrame

\* lines 294-295: f.mu.RLock().  gen0 is the generation in force at that time.
GetStatsRLock ==
    /\ st.pc \in {"idle", "done"}
    /\ st.n < MaxStats
    /\ RLockGranted(mu)
    /\ mu' = [mu EXCEPT !.readers = @ \cup {"stats"}]
    /\ st' = [IdleStats EXCEPT !.pc = "version", !.gen0 = gen, !.n = st.n + 1]
    /\ StatsFrame

\* line 298: "version": f.version
GetStatsVersion ==
    /\ st.pc = "version"
    /\ st' = [st EXCEPT !.pc = "last_update", !.version = version,
                        !.acVersion = acVersion]
    /\ UNCHANGED mu
    /\ StatsFrame

\* line 299: "last_update": f.lastUpdate
GetStatsLastUpdate ==
    /\ st.pc = "last_update"
    /\ st' = [st EXCEPT !.pc = "node_count", !.lastUpdate = lastUpdate]
    /\ UNCHANGED mu
    /\ StatsFrame

\* line 300: "node_count": f.automaton.GetNodeCount()
GetStatsNodeCount ==
    /\ st.pc = "node_count"
    /\ st' = [st EXCEPT !.pc = "whitelist_size", !.nodeCount = GetNodeCount(nodes)]
    /\ UNCHANGED mu
    /\ StatsFrame

\* line 301: "whitelist_size": len(f.whitelist)
GetStatsWhitelistSize ==
    /\ st.pc = "whitelist_size"
    /\ st' = [st EXCEPT !.pc = "return", !.whitelistSize = Cardinality(whitelist)]
    /\ UNCHANGED mu
    /\ StatsFrame

\* line 308: return stats, and the deferred RUnlock
GetStatsReturn ==
    /\ st.pc = "return"
    /\ mu' = [mu EXCEPT !.readers = @ \ {"stats"}]
    /\ st' = [st EXCEPT !.pc = "done"]
    /\ StatsFrame

InitStats == InitFilter(ConcTexts, ConcOptions, ConcConfigs)

NextStats ==
    \/ GetStatsRLock
    \/ GetStatsVersion
    \/ GetStatsLastUpdate
    \/ GetStatsNodeCount
    \/ GetStatsWhitelistSize
    \/ GetStatsReturn
    \/ OpsLeft /\ \E d \in DOMAIN DBs :
                     \E order \in Perms(DOMAIN DBs[d].Categories) :
                         UpdateLock("push", d, order)
    \/ OpsLeft /\ WlOpsLeft /\ \E w \in ConcWlWords : AddToWhitelist(w)
    \/ UpdateSteps

SpecStats == InitStats /\ [][NextStats]_vars

(***************************************************************************)
(* The two lock layers.  Every method of the filter is the sequence of     *)
(* lock operations it makes on ContentFilter.mu (fmu) and, through the     *)
(* methods of the automaton, on ACAutomaton.mu (acmu).  A sync.RWMutex     *)
(* grants RLock when no writer holds it and none waits for it, and Lock    *)
(* when nobody holds it; a writer waits from the moment it calls Lock.     *)
(***************************************************************************)
Op(kind, mutex) == [op |-> kind, mu |-> mutex]

\* a method of the automaton that takes ac.mu.Lock (AddWord, BuildFailPointers,
\* Clear, SetVersion) or ac.mu.RLock (SearchWithOptions, GetNodeCount)
AcWrite == << Op("Lock", "acmu"), Op("Unlock", "acmu") >>
AcRead  == << Op("RLock", "acmu"), Op("RUnlock", "acmu") >>

\* Filter, lines 162-181, answered by the cache
FilterCached == [name |-> "Filter", prog |-> <<>>]

\* doFilter, lines 184-200: the whitelist passes the text
FilterWhitelisted ==
    [name |-> "Filter", prog |-> << Op("RLock", "fmu"), Op("RUnlock", "fmu") >>]

\* doFilter, lines 184-243: the search is made
FilterSearched ==
    [name |-> "Filter",
     prog |-> << Op("RLock", "fmu") >> \o AcRead \o << Op("RUnlock", "fmu") >>]

\* doFilter with nil options: line 205 dereferences options, the deferred
\* RUnlock runs while the panic unwinds
FilterNilOptions ==
    [name |-> "Filter",
     prog |-> << Op("RLock", "fmu"), Op("panic", "none"), Op("RUnlock", "fmu") >>]

\* GetStats, lines 293-309
GetStatsCall ==
    [name |-> "GetStats",
     prog |-> << Op("RLock", "fmu") >> \o AcRead \o << Op("RUnlock", "fmu") >>]

\* HealthCheck, lines 346-358: the collaborator check fails, or GetNodeCount
HealthCheckFailed == [name |-> "HealthCheck", prog |-> <<>>]
HealthCheckCounted == [name |-> "HealthCheck", prog |-> AcRead]

\* AddToWhitelist, RemoveFromWhitelist, lines 317-328
AddToWhitelistCall ==
    [name |-> "AddToWhitelist", prog |-> << Op("Lock", "fmu"), Op("Unlock", "fmu") >>]
RemoveFromWhitelistCall ==
    [name |-> "RemoveFromWhitelist", prog |-> << Op("Lock", "fmu"), Op("Unlock", "fmu") >>]

\* updateWordDatabase, lines 77-119: Clear, an AddWord, BuildFailPointers,
\* SetVersion, and GetNodeCount for the log line, all under f.mu.Lock
UpdateDatabaseCall ==
    [name |-> "UpdateDatabase",
     prog |-> << Op("Lock", "fmu") >> \o AcWrite \o AcWrite \o AcWrite \o AcWrite
                 \o AcRead \o << Op("Unlock", "fmu") >>]

MethodCalls ==
    { FilterCached, FilterWhitelisted, FilterSearched, FilterNilOptions, GetStatsCall,
      HealthCheckFailed, HealthCheckCounted, AddToWhitelistCall, RemoveFromWhitelistCall,
      UpdateDatabaseCall }

\* the operation a running caller is at
AtOp(c, kind) ==
    /\ lk.call[c].state \in {"running", "panicking"}
    /\ lk.call[c].pc <= Len(lk.call[c].prog)
    /\ lk.call[c].prog[lk.call[c].pc].op = kind

MutexOf(c) == lk.call[c].prog[lk.call[c].pc].mu

LockFrame == UNCHANGED <<acVars, acLast, fVars, oVars, wlLast, checks, rl, srch, qVars>>

CallStart(c, method) ==
    /\ lk.call[c].state = "idle"
    /\ lk' = [lk EXCEPT !.call[c] = [name |-> method.name, prog |-> method.prog,
                                     pc |-> 1, state |-> "running"]]
    /\ LockFrame

\* RWMutex.RLock returns
RLock(c) ==
    /\ AtOp(c, "RLock")
    /\ lk[MutexOf(c)].writer = 0
    /\ lk[MutexOf(c)].pending = {}
    /\ lk' = [lk EXCEPT ![MutexOf(c)].readers = @ \cup {c}, !.call[c].pc = @ + 1]
    /\ LockFrame

RUnlock(c) ==
    /\ AtOp(c, "RUnlock")
    /\ lk' = [lk EXCEPT ![MutexOf(c)].readers = @ \ {c}, !.call[c].pc = @ + 1]
    /\ LockFrame

\* RWMutex.Lock is called: from now on no new reader is admitted
LockCalled(c) ==
    /\ AtOp(c, "Lock")
    /\ c \notin lk[MutexOf(c)].pending
    /\ lk' = [lk EXCEPT ![MutexOf(c)].pending = @ \cup {c}]
    /\ LockFrame

\* RWMutex.Lock returns
Lock(c) ==
    /\ AtOp(c, "Lock")
    /\ c \in lk[MutexOf(c)].pending
    /\ lk[MutexOf(c)].writer = 0
    /\ lk[MutexOf(c)].readers = {}
    /\ lk' = [lk EXCEPT ![MutexOf(c)].writer = c, ![MutexOf(c)].pending = @ \ {c},
                        !.call[c].pc = @ + 1]
    /\ LockFrame

Unlock(c) ==
    /\ AtOp(c, "Unlock")
    /\ lk' = [lk EXCEPT ![MutexOf(c)].writer = 0, !.call[c].pc = @ + 1]
    /\ LockFrame

\* a nil dereference: the call unwinds through its deferred unlocks
Panics(c) ==
    /\ AtOp(c, "panic")
    /\ lk' = [lk EXCEPT !.call[c].state = "panicking", !.call[c].pc = @ + 1]
    /\ LockFrame

\* the method returns to its caller, or the panic leaves it
CallEnds(c) ==
    /\ lk.call[c].state \in {"running", "panicking"}
    /\ lk.call[c].pc > Len(lk.call[c].prog)
    /\ lk' = [lk EXCEPT !.call[c].state =
                            IF @ = "running" THEN "returned" ELSE "panicked"]
    /\ LockFrame

CallStep(c) ==
    \/ RLock(c)
    \/ RUnlock(c)
    \/ LockCalled(c)
    \/ Lock(c)
    \/ Unlock(c)
    \/ Panics(c)
    \/ CallEnds(c)

NextLocks ==
    \/ \E c \in Callers, method \in MethodCalls : CallStart(c, method)
    \/ \E c \in Callers : CallStep(c)

\* every goroutine is scheduled again and again, and a lock that becomes free
\* again and again is granted to each goroutine waiting for it
FairLocks == \A c \in Callers : SF_vars(CallStep(c))

SpecLocks == InitAC /\ [][NextLocks]_vars /\ FairLocks

(***************************************************************************)
(* The reload goroutine of startPeriodicReload and Close.  The ticker's    *)
(* channel holds at most one tick; Stop prevents further ticks and leaves  *)
(* a tick that is already in the channel where it is.                      *)
(***************************************************************************)
MaxTicks == 2

\* the runtime sends a tick; a tick that finds the channel full is dropped
TickerFires ==
    /\ rl.ticker = "running"
    /\ rl.ticks < MaxTicks
    /\ rl' = [rl EXCEPT !.C = 1, !.ticks = @ + 1]
    /\ UNCHANGED <<acVars, acLast, fVars, oVars, wlLast, checks, zVars>>

\* line 148: case <-f.reloadTicker.C, chosen among the cases that are ready
LoopTakesTick ==
    /\ rl.loop = "select"
    /\ rl.C = 1
    /\ rl' = [rl EXCEPT !.C = 0, !.loop = "load", !.n0 = up["timer"].n]
    /\ UNCHANGED <<acVars, acLast, fVars, oVars, wlLast, checks, zVars>>

\* line 149: f.loadWordDatabase() fetched a database and calls updateWordDatabase
LoopUpdates ==
    /\ rl.loop = "load"
    /\ up["timer"].n = rl.n0
    /\ \E d \in DOMAIN DBs :
          \E order \in Perms(DOMAIN DBs[d].Categories) : UpdateLock("timer", d, order)

\* lines 149-151: loadWordDatabase returned, with the update made or with an
\* error that is logged
LoopLoaded ==
    /\ rl.loop = "load"
    /\ up["timer"].pc = "idle"
    /\ rl' = [rl EXCEPT !.loop = "select"]
    /\ UNCHANGED <<acVars, acLast, fVars, oVars, wlLast, checks, zVars>>

\* lines 152-153: case <-f.stopChan: return
LoopStops ==
    /\ rl.loop = "select"
    /\ rl.stopChan = "closed"
    /\ rl' = [rl EXCEPT !.loop = "returned"]
    /\ UNCHANGED <<acVars, acLast, fVars, oVars, wlLast, checks, zVars>>

\* line 332: close(f.stopChan)
CloseStopChan ==
    /\ rl.close = "idle"
    /\ rl' = [rl EXCEPT !.stopChan = "closed", !.close = "ticker"]
    /\ UNCHANGED <<acVars, acLast, fVars, oVars, wlLast, checks, zVars>>

\* lines 334-336: f.reloadTicker.Stop()
CloseTicker ==
    /\ rl.close = "ticker"
    /\ rl' = [rl EXCEPT !.ticker = "stopped", !.close = "cache"]
    /\ UNCHANGED <<acVars, acLast, fVars, oVars, wlLast, checks, zVars>>

\* lines 338-342: f.cache.Close(), and return f.nacosClient.Close(), which
\* does nothing (client.go 138-141)
CloseReturns ==
    /\ rl.close = "cache"
    /\ rl' = [rl EXCEPT !.close = "done"]
    /\ UNCHANGED <<acVars, acLast, fVars, oVars, wlLast, checks, zVars>>

InitClose == InitFilter(ConcTexts, ConcOptions, ConcConfigs)

NextClose ==
    \/ TickerFires
    \/ LoopTakesTick
    \/ LoopUpdates
    \/ UpdateSteps
    \/ LoopLoaded
    \/ LoopStops
    \/ CloseStopChan
    \/ CloseTicker
    \/ CloseReturns

SpecClose == InitClose /\ [][NextClose]_vars

(***************************************************************************)
(* Reference notions the claims are stated with.                           *)
(***************************************************************************)
IsSubstring(w, text) ==
    \E i \in 0..(Len(text) - Len(w)) : SubSeq(text, i + 1, i + Len(w)) = w

IsSuffix(w, path) ==
    /\ Len(w) <= Len(path)
    /\ SubSeq(path, Len(path) - Len(w) + 1, Len(path)) = w

Count(x, s) == Cardinality({i \in 1..Len(s) : s[i] = x})


\* Clear, then AddWord calls, then exactly one BuildFailPointers
BuiltOnce == builds = 1 /\ ~dirty

\* the AddWord calls that inserted something (an empty word inserts nothing)
InsertedIdx == {i \in 1..Len(added) : added[i].Word # <<>>}

(***************************************************************************)
(* C3 - matching completeness: on an automaton built after its last        *)
(* insertion, Search(text) reports every inserted pattern that occurs in   *)
(* text as a contiguous substring (at least one result carries its word).  *)
(***************************************************************************)
C3_MatchingCompleteness ==
    (acLast.op = "Search" /\ Built) =>
        /\ ~acLast.res.panic
        /\ \A i \in InsertedIdx :
              IsSubstring(added[i].Word, acLast.text) =>
                  \E j \in 1..Len(acLast.res.out) :
                      acLast.res.out[j].Word = added[i].Word

\* a pattern found away from the start of the text, after a failed partial match
C3_Witness ==
    /\ acLast.op = "Search" /\ Built
    /\ \E i \in InsertedIdx :
          /\ Len(added[i].Word) = 2
          /\ IsSubstring(added[i].Word, acLast.text)
          /\ SubSeq(acLast.text, 1, 2) # added[i].Word
          /\ acLast.text[1] = added[i].Word[1]

(***************************************************************************)
(* C4 - no false positives: on a built automaton every result of Search    *)
(* is an inserted pattern whose word occurs in the text; when no inserted  *)
(* pattern occurs in the text (or none was inserted) the result is empty.  *)
(***************************************************************************)
C4_NoFalsePositives ==
    (acLast.op = "Search" /\ Built) =>
        /\ ~acLast.res.panic
        /\ \A j \in 1..Len(acLast.res.out) :
              /\ \E i \in InsertedIdx : added[i] = acLast.res.out[j]
              /\ IsSubstring(acLast.res.out[j].Word, acLast.text)
        /\ (\A i \in InsertedIdx : ~IsSubstring(added[i].Word, acLast.text))
              => acLast.res.out = <<>>

\* a text that enters the trie (shares a first character with a pattern) and
\* still matches nothing
C4_Witness ==
    /\ acLast.op = "Search" /\ Built
    /\ acLast.res.out = <<>>
    /\ \E i \in InsertedIdx : IsSubstring(<<added[i].Word[1]>>, acLast.text)

(***************************************************************************)
(* C5 - output merging: after Clear, AddWord calls and one                 *)
(* BuildFailPointers, the output list of every node holds exactly the      *)
(* inserted patterns whose word is a suffix of the node's path, each as    *)
(* often as it was inserted; with "ab" and "bc" inserted, a search of a    *)
(* text containing "abc" reports both.                                     *)
(***************************************************************************)
C5_OutputMerging ==
    BuiltOnce =>
        /\ \A n \in DOMAIN nodes :
              \A p \in SeqRange(added) \cup SeqRange(nodes[n].output) :
                  Count(p, nodes[n].output) =
                      IF p.Word # <<>> /\ IsSuffix(p.Word, n) THEN Count(p, added) ELSE 0
        /\ (/\ acLast.op = "Search"
            /\ IsSubstring(<<"a", "b", "c">>, acLast.text)
            /\ \E i \in InsertedIdx : added[i].Word = <<"a", "b">>
            /\ \E i \in InsertedIdx : added[i].Word = <<"b", "c">>)
              => /\ \E j \in 1..Len(acLast.res.out) : acLast.res.out[j].Word = <<"a", "b">>
                 /\ \E j \in 1..Len(acLast.res.out) : acLast.res.out[j].Word = <<"b", "c">>

\* "ab" and "bc" inserted, built once, and a text containing "abc" searched
C5_Witness ==
    /\ BuiltOnce
    /\ acLast.op = "Search"
    /\ IsSubstring(<<"a", "b", "c">>, acLast.text)
    /\ \E i \in InsertedIdx : added[i].Word = <<"a", "b">>
    /\ \E i \in InsertedIdx : added[i].Word = <<"b", "c">>
    /\ Len(acLast.res.out) = 2

(***************************************************************************)
(* C6 - option filtering: SearchWithOptions never returns a pattern whose  *)
(* level is below options.MinLevel, nor, when options.Categories is not    *)
(* empty, one whose categories are disjoint from options.Categories.       *)
(***************************************************************************)
C6_OptionFiltering ==
    acLast.op = "SearchWithOptions" =>
        \A j \in 1..Len(acLast.res.out) :
            /\ acLast.res.out[j].Level >= acLast.options.MinLevel
            /\ acLast.options.Categories # <<>> =>
                  SeqRange(acLast.res.out[j].Categories)
                      \cap SeqRange(acLast.options.Categories) # {}

\* the filter kept one match and dropped another, by level
C6_Witness ==
    /\ acLast.op = "SearchWithOptions" /\ Built
    /\ acLast.res.out # <<>>
    /\ \E o \in SeqRange(Search(nodes, acLast.text).out) :
          o.Level < acLast.options.MinLevel


(***************************************************************************)
(* Reference notions for the filter's claims.                              *)
(***************************************************************************)
\* the whitespace-delimited tokens of s, stated without scanning
IsToken(s, i, j) ==
    /\ i <= j
    /\ \A k \in i..j : s[k] # " "
    /\ (i = 1 \/ s[i - 1] = " ")
    /\ (j = Len(s) \/ s[j + 1] = " ")

TokenSet(s) ==
    { SubSeq(s, i, j) : <<i, j>> \in {x \in (1..Len(s)) \X (1..Len(s)) : IsToken(s, x[1], x[2])} }

\* what a Filter call computes on a published generation g
VerdictOn(g) == doFilter(FullBuild(g.q), g.wl, cfg, query.text, query.options)

\* the entries of generation g that pass the call's option filter and occur
\* in its text
MatchingEntries(g) ==
    { p \in SeqRange(g.q) :
        /\ matchesOptions(p, SearchOptions(query.options.Categories, query.options.MinLevel))
        /\ IsSubstring(p.Word, query.text) }

NoDuplicates(s) == \A i, j \in 1..Len(s) : s[i] = s[j] => i = j

(***************************************************************************)
(* C1 - update atomicity: the verdict a Filter call computes is the        *)
(* verdict of one published generation - the fully built automaton and the *)
(* whitelist of the generation that was current when the call took the     *)
(* shared lock - also when an update runs while the call is in progress;   *)
(* it is never computed from a cleared or half-built automaton (which      *)
(* could also make the search panic) or from the whitelist of one          *)
(* generation and the automaton of another.                                *)
(***************************************************************************)
C1_UpdateAtomicity ==
    \A r \in Readers :
        rd[r].computed =>
            /\ ~rd[r].result.panic
            /\ rd[r].result = VerdictOn(rd[r].g)

\* a call that started before an update took the lock, then computed its
\* verdict on the generation that update published
C1_Witness ==
    \E r \in Readers :
        /\ rd[r].computed
        /\ ~rd[r].noUpd
        /\ rd[r].g = gen
        /\ gen.q # DBQueue(DB1, <<>>)
        /\ NoUpdateRunning

(***************************************************************************)
(* C2 - cache invalidation: once an update has returned, a Filter call     *)
(* that starts afterwards (no update and no whitelist mutation since that  *)
(* update's cache clear) returns the verdict of the generation the update  *)
(* published.                                                              *)
(***************************************************************************)
C2_CacheInvalidated ==
    \A r \in Readers :
        (rd[r].pc = "done" /\ rd[r].quiet /\ nUpdates >= 1) =>
            rd[r].result = VerdictOn(gen)

(***************************************************************************)
(* C10 - cache round trip: with caching enabled, a Filter call that        *)
(* follows a call of the same goroutine with the same text and options,    *)
(* no update having run since the first of the two started, returns the    *)
(* same result and is served from the cache (no whitelist test, no         *)
(* search).                                                                *)
(***************************************************************************)
C10_CacheRoundTrip ==
    \A r \in Readers :
        (rd[r].pc = "done" /\ rd[r].prev.valid /\ cfg.EnableCache) =>
            /\ rd[r].result = rd[r].prev.res
            /\ ~rd[r].computed

(***************************************************************************)
(* C7 - verdict definition, as claimed: a freshly computed result has      *)
(* passed = TRUE iff the whitelist branch was taken or no entry of the     *)
(* database that passes the option filter occurs in the text; when passed  *)
(* is FALSE, words lists exactly the distinct words of those entries.      *)
(***************************************************************************)
C7_VerdictAsClaimed ==
    \A r \in Readers :
        (rd[r].computed /\ rd[r].pc \in {"set", "done"}) =>
            /\ rd[r].result.Passed <=> (rd[r].wlHit \/ MatchingEntries(rd[r].g) = {})
            /\ ~rd[r].result.Passed =>
                  /\ SeqRange(rd[r].result.Words) = {p.Word : p \in MatchingEntries(rd[r].g)}
                  /\ NoDuplicates(rd[r].result.Words)

(***************************************************************************)
(* C7 (amended) - the same with "entry of the database" read as "entry     *)
(* with a non-empty word": an empty word is never inserted, so it matches  *)
(* nothing.  The end-to-end example is part of the statement: with only    *)
(* the pattern ab/abuse/3, the text "c ab c" and default options give      *)
(* passed = FALSE, words = [ab], categories = [abuse].                     *)
(***************************************************************************)
C7_VerdictDefinition ==
    \A r \in Readers :
        (rd[r].computed /\ rd[r].pc \in {"set", "done"}) =>
            LET matching == {p \in MatchingEntries(rd[r].g) : p.Word # <<>>}
            IN /\ rd[r].result.Passed <=> (rd[r].wlHit \/ matching = {})
               /\ ~rd[r].result.Passed =>
                     /\ SeqRange(rd[r].result.Words) = {p.Word : p \in matching}
                     /\ NoDuplicates(rd[r].result.Words)
               /\ (/\ rd[r].g.q = DBQueue(DB1, <<>>)
                   /\ ~rd[r].wlHit
                   /\ query.text = <<"c", " ", "a", "b", " ", "c">>
                   /\ query.options = DefaultOptions)
                     => /\ ~rd[r].result.Passed
                        /\ rd[r].result.Words = << <<"a", "b">> >>
                        /\ rd[r].result.Categories = <<"abuse">>

\* a failed verdict whose search met the same word twice, on a generation
\* that also holds an empty-word entry passing the option filter
C7_Witness ==
    \E r \in Readers :
        /\ rd[r].computed /\ rd[r].pc = "done"
        /\ ~rd[r].result.Passed
        /\ \E p \in MatchingEntries(rd[r].g) : p.Word = <<>>
        /\ Len(SearchWithOptions(nodes, query.text,
                   SearchOptions(query.options.Categories, query.options.MinLevel)).out)
              > Len(rd[r].result.Words)

(***************************************************************************)
(* C8 - whitelisting takes effect on the repeated call: when a call with   *)
(* default options failed on a word that is a token of the text, and that  *)
(* word was in the whitelist when the repeated call started (whitelist     *)
(* enabled, no update in between), the repeated call returns               *)
(* passed = TRUE, with or without the cache.                               *)
(***************************************************************************)
C8_WhitelistTakesEffect ==
    \A r \in Readers :
        (/\ rd[r].pc = "done"
         /\ rd[r].prev.valid
         /\ ~rd[r].prev.res.Passed
         /\ query.options = DefaultOptions
         /\ cfg.EnableWhitelist
         /\ \E tok \in TokenSet(query.text) :
               /\ tok \in SeqRange(rd[r].prev.res.Words)
               /\ tok \in rd[r].wlAtStart)
            => rd[r].result.Passed

(***************************************************************************)
(* C9 - whitelist short-circuit: a freshly computed result is the          *)
(* whitelist result, reached without a search, iff options.EnableWhitelist *)
(* and config.EnableWhitelist are set and the lower-cased text or one of   *)
(* its whitespace-delimited lower-cased tokens is in the whitelist - also  *)
(* when the text holds blacklisted patterns; with a flag off the verdict   *)
(* is the one of the search alone.                                         *)
(***************************************************************************)
C9_WhitelistShortCircuit ==
    \A r \in Readers :
        (rd[r].computed /\ rd[r].pc \in {"set", "done"}) =>
            LET on   == query.options.EnableWhitelist /\ cfg.EnableWhitelist
                low  == ToLower(query.text)
                inWl == low \in rd[r].g.wl \/ TokenSet(low) \cap rd[r].g.wl # {}
            IN /\ (rd[r].result = WhitelistResult /\ ~rd[r].searched) <=> (on /\ inWl)
               /\ rd[r].result = WhitelistResult \/ rd[r].searched
               /\ ~on => rd[r].result = FilterSearch(FullBuild(rd[r].g.q), query.text,
                                                     query.options)

\* the whitelist passes, by an upper-case token, a text that the search
\* alone would fail
C9_Witness ==
    \E r \in Readers :
        /\ rd[r].computed /\ rd[r].pc = "done"
        /\ rd[r].result = WhitelistResult
        /\ ToLower(query.text) \notin whitelist
        /\ query.text # ToLower(query.text)
        /\ ~FilterSearch(nodes, query.text, query.options).Passed

(***************************************************************************)
(* C11 - BuildFailPointers is idempotent: a BuildFailPointers call made    *)
(* right after another (no AddWord or Clear in between) leaves the result  *)
(* of Search unchanged for every text: same outputs, same multiplicities,  *)
(* same order.                                                             *)
(***************************************************************************)
C11_BuildIdempotent ==
    [][(builds' = builds + 1 /\ ~dirty) =>
          \A text \in ACTexts : Search(nodes', text) = Search(nodes, text)]_vars

\* the trie t, built, holds exactly the entries (those with a non-empty
\* word): its nodes are the prefixes of their words, and the output list of
\* a node holds the entries whose word is a suffix of the node's path, each
\* as often as it is listed
HoldsExactly(t, entries) ==
    /\ DOMAIN t = {Root} \cup UNION {WordPrefixes(p.Word) : p \in SeqRange(entries)}
    /\ \A n \in DOMAIN t :
          \A p \in SeqRange(entries) \cup SeqRange(t[n].output) :
              Count(p, t[n].output) =
                  IF p.Word # <<>> /\ IsSuffix(p.Word, n) THEN Count(p, entries) ELSE 0
    /\ \A n \in DOMAIN t : n # Root => t[n].fail # NilNode

\* the entries of a database, in one order of its categories
DBEntries(db) == DBQueue(db, CHOOSE order \in Perms(DOMAIN db.Categories) : TRUE)

(***************************************************************************)
(* C12 - an update replaces the generation wholesale: when                 *)
(* updateWordDatabase(db) returns, the whitelist is exactly the            *)
(* lower-cased entries of db.Whitelist, the automaton holds exactly the    *)
(* entries of db.Blacklist and db.Categories with the failure links        *)
(* rebuilt, both versions are db.Version, lastUpdate is db.UpdateTime and  *)
(* the result cache is empty.                                              *)
(***************************************************************************)
C12_UpdateReplacesGeneration ==
    [][\A u \in Updaters :
        (up[u].pc = "unlock" /\ up'[u].pc = "idle") =>
          LET db == DBs[up[u].db]
          IN /\ whitelist' = {ToLower(db.Whitelist[i]) : i \in 1..Len(db.Whitelist)}
             /\ HoldsExactly(nodes', DBEntries(db))
             /\ acVersion' = db.Version
             /\ version' = db.Version
             /\ lastUpdate' = db.UpdateTime
             /\ cache' = EmptyMap]_vars

(***************************************************************************)
(* C13 - a failed reload retains the generation: the step in which a load  *)
(* fails (fetch error in the timer goroutine, unmarshal error there or in  *)
(* the push callback) does not enter updateWordDatabase and leaves the     *)
(* automaton, the whitelist, the versions, lastUpdate and the cache        *)
(* unchanged; the verdict of Filter stays that of the generation before,   *)
(* and the Filter calls in progress are not touched.                       *)
(***************************************************************************)
C13_FailedReloadKeepsGeneration ==
    [][\A u \in Updaters :
        (up'[u].err # "none" /\ up[u].err = "none") =>
            /\ up'[u].pc = "idle"
            /\ mu' = mu
            /\ nodes' = nodes /\ acVersion' = acVersion
            /\ whitelist' = whitelist
            /\ version' = version /\ lastUpdate' = lastUpdate
            /\ cache' = cache
            /\ rd' = rd
            /\ doFilter(nodes', whitelist', cfg', query'.text, query'.options)
                  = doFilter(nodes, whitelist, cfg, query.text, query.options)]_vars

\* a reload failed after a database was pushed and a verdict was cached: the
\* pushed generation and the cached verdict are still there
C13_Witness ==
    /\ up["timer"].err = "fetch"
    /\ up["push"].n = 1 /\ up["push"].db = 2
    /\ NoUpdateRunning
    /\ version = DB2.Version
    /\ HoldsExactly(nodes, DBEntries(DB2))
    /\ cache # EmptyMap

(***************************************************************************)
(* C14 - concurrent reloads are serialized: at most one goroutine is       *)
(* inside updateWordDatabase at a time, and whenever none is, the          *)
(* automaton contents, the whitelist, both versions and lastUpdate are     *)
(* those of one single database.                                           *)
(***************************************************************************)
C14_ReloadsSerialized ==
    /\ Cardinality({u \in Updaters : up[u].pc # "idle"}) <= 1
    /\ NoUpdateRunning =>
          \E d \in DOMAIN DBs :
              /\ HoldsExactly(nodes, DBEntries(DBs[d]))
              /\ whitelist = {ToLower(DBs[d].Whitelist[i]) : i \in 1..Len(DBs[d].Whitelist)}
              /\ acVersion = DBs[d].Version
              /\ version = DBs[d].Version
              /\ lastUpdate = DBs[d].UpdateTime

\* both goroutines have loaded a database, different ones, and returned
C14_Witness ==
    /\ NoUpdateRunning
    /\ up["push"].n = 1 /\ up["timer"].n = 1
    /\ up["push"].db # up["timer"].db

(***************************************************************************)
(* C15 - Filter is total: whatever the text and the options, a nil         *)
(* options included, a Filter call returns a result and never panics; and  *)
(* a freshly computed passed = TRUE comes from the whitelist branch or     *)
(* from a search that matched nothing.                                     *)
(***************************************************************************)
C15_FilterTotal ==
    \A r \in Readers :
        /\ rd[r].pc # "panicked"
        /\ (rd[r].computed /\ rd[r].pc \in {"set", "done"}) =>
              /\ ~rd[r].result.panic
              /\ rd[r].result.Passed =>
                    \/ rd[r].wlHit /\ rd[r].result = WhitelistResult
                    \/ rd[r].searched /\ rd[r].result = PassResult

(***************************************************************************)
(* C16 - HealthCheck fails exactly when the configuration collaborator is  *)
(* unreachable or the automaton has no node, with an error that tells the  *)
(* two causes apart: a collaborator failure when it is unreachable,        *)
(* "automaton is empty" when it is reachable and the automaton has no      *)
(* node, and success when it is reachable and the automaton has a node.    *)
(* Reachable are the answers of the collaborator that carry a content or   *)
(* say that the probed configuration does not exist.                       *)
(***************************************************************************)
Reachable(outcome) == outcome \in {"ok", "config not found"}

C16_HealthCheckVerdict ==
    hc.pc = "done" =>
        IF ~Reachable(hc.probe)
        THEN Head(hc.err) = "nacos health check failed"
        ELSE /\ hc.count >= 0
             /\ hc.err = (IF hc.count = 0 THEN <<"automaton is empty">> ELSE NoError)

C18_CapacityAndLRU ==
    [][/\ Len(lru') <= CacheSize
       /\ (tick' # tick /\ lruLast'.op = "set" /\ lruLast'.key \notin LRUKeys(lru)
              /\ Len(lru) = CacheSize) =>
            \E i \in 1..Len(lru) :
                /\ \A j \in 1..Len(lru) : lru[i].used <= lru[j].used
                /\ LRUKeys(lru') = (LRUKeys(lru) \ {lru[i].key}) \cup {lruLast'.key}]_vars

\* a Set has removed an entry that was not the oldest stored: an older one
\* had been used by a Get since
C18_Witness ==
    /\ lruLast.op = "set"
    /\ lruLast.removed.valid
    /\ \E i \in 1..Len(lru) :
          /\ lru[i].hits > 0
          /\ lru[i].storedAt < lruLast.removed.entry.storedAt

(***************************************************************************)
(* C19 - cache expiry: an entry expires TTL after it was stored, whatever  *)
(* its use since.  A Get never changes the storing time of an entry; a Get *)
(* of a key whose entry has expired reports not-found and removes the      *)
(* entry, a Get of a key whose entry has not expired finds it; and a key   *)
(* enters the cache only by a Set of that key, so that after such a miss   *)
(* the key stays absent until it is Set again.                             *)
(***************************************************************************)
C19_Expiry ==
    [][/\ (tick' # tick /\ lruLast'.op = "get") =>
            LET key == lruLast'.key
            IN /\ \A i \in 1..Len(lru), j \in 1..Len(lru') :
                     lru[i].key = lru'[j].key => lru'[j].storedAt = lru[i].storedAt
               /\ IF key \notin LRUKeys(lru) THEN ~lruLast'.found
                  ELSE IF clock - lru[LRUIndex(lru, key)].storedAt > TTL
                       THEN ~lruLast'.found /\ key \notin LRUKeys(lru')
                       ELSE lruLast'.found /\ key \in LRUKeys(lru')
       /\ \A key \in LRUKeys(lru') \ LRUKeys(lru) :
            lruLast'.op = "set" /\ lruLast'.key = key]_vars

\* a Get has missed on an entry that had expired although it had been hit
\* after it was stored
C19_Witness ==
    /\ lruLast.op = "get"
    /\ ~lruLast.found
    /\ lruLast.removed.valid
    /\ lruLast.removed.entry.hits > 0

(***************************************************************************)
(* C20 - whitelist mutations are single-entry and leave the rest alone:    *)
(* AddToWhitelist(word) adds exactly the lower-cased word to the whitelist *)
(* and RemoveFromWhitelist(word) removes exactly the lower-cased word;     *)
(* neither changes the automaton, the versions, lastUpdate or the contents *)
(* of the result cache.                                                    *)
(***************************************************************************)
C20_WhitelistFrame ==
    [][nWlOps' # nWlOps =>
         LET word == ToLower(wlLast'.word)
         IN /\ wlLast'.op = "add" => whitelist' = whitelist \cup {word}
            /\ wlLast'.op = "remove" => whitelist' = whitelist \ {word}
            /\ wlLast'.op \in {"add", "remove"}
            /\ nodes' = nodes
            /\ acVersion' = acVersion
            /\ version' = version
            /\ lastUpdate' = lastUpdate
            /\ cache' = cache]_vars

\* a word with an upper-case letter was added after an update, while the
\* cache held a result
C20_Witness ==
    /\ wlLast.op = "add"
    /\ wlLast.word # ToLower(wlLast.word)
    /\ ToLower(wlLast.word) \in whitelist
    /\ wlLast.word \notin whitelist
    /\ cache # EmptyMap
    /\ nUpdates > 0

(***************************************************************************)
(* C21 - AddWord with an empty word is a no-op: the call adds no node,     *)
(* marks nothing terminal, appends no output, and leaves GetNodeCount and  *)
(* the result of every Search as they were; and an update whose database   *)
(* holds empty-word entries builds the automaton it would build without    *)
(* them.                                                                   *)
(***************************************************************************)
NonEmptyEntries(queue) == SelectSeq(queue, LAMBDA p : p.Word # <<>>)

C21_EmptyWordNoOp ==
    [][\A u \in Updaters :
         /\ (/\ up[u].pc = "add" /\ up[u].queue # <<>>
             /\ up'[u].queue = Tail(up[u].queue)
             /\ Head(up[u].queue).Word = <<>>) =>
               /\ DOMAIN nodes' = DOMAIN nodes
               /\ \A n \in DOMAIN nodes :
                     /\ nodes'[n].isEnd = nodes[n].isEnd
                     /\ nodes'[n].output = nodes[n].output
               /\ GetNodeCount(nodes') = GetNodeCount(nodes)
               /\ \A text \in ACTexts : Search(nodes', text) = Search(nodes, text)
         /\ (up[u].pc = "add" /\ up'[u].pc = "version") =>
               nodes' = FullBuild(NonEmptyEntries(added))]_vars

\* an update has just passed the empty-word entry of its database to AddWord
C21_Witness ==
    \E u \in Updaters :
        /\ up[u].pc = "add"
        /\ added # <<>>
        /\ added[Len(added)].Word = <<>>
        /\ Len(added) > 1
        /\ up[u].queue # <<>>

(***************************************************************************)
(* C22 - Clear empties the automaton: right after Clear, whatever was      *)
(* inserted and built before, GetNodeCount is 0, the version is the empty  *)
(* string, and Search returns the empty sequence for every text.           *)
(***************************************************************************)
C22_ClearEmpties ==
    [][\A u \in Updaters :
         (up[u].pc = "clear" /\ up'[u].pc = "whitelist") =>
             /\ GetNodeCount(nodes') = 0
             /\ acVersion' = ""
             /\ \A text \in ACTexts : Search(nodes', text) = Found(<<>>)]_vars

\* an update has just cleared the automaton that an earlier update had
\* built from the database with five entries and given the version v2
C22_Witness ==
    \E u \in Updaters :
        /\ up[u].pc = "whitelist"
        /\ version = "v2"
        /\ nodes = EmptyTrie

(***************************************************************************)
(* C23 - result shape.  A result with passed = TRUE has no words and no    *)
(* categories.  In a result with passed = FALSE, words and categories hold *)
(* no duplicates, the keys of details are the words, and every value reads *)
(* "level:N,categories:C1,C2" for an entry of a database with that word.   *)
(* When the result was computed by this call, words are the words of the   *)
(* scan's outputs and categories the categories of those outputs, each in  *)
(* the order of first occurrence, and every detail is that of an output of *)
(* the scan.  Results taken from the cache and the results the cache holds *)
(* are included.                                                           *)
(***************************************************************************)
FirstIdx(x, s) == CHOOSE i \in 1..Len(s) : s[i] = x /\ \A j \in 1..(i - 1) : s[j] # x

InFirstOccurrenceOrder(d, s) ==
    /\ NoDuplicates(d)
    /\ SeqRange(d) = SeqRange(s)
    /\ \A a, b \in 1..Len(d) : a < b => FirstIdx(d[a], s) < FirstIdx(d[b], s)

DetailText(p) == <<"level:", ToString(p.Level), ",categories:">> \o Join(p.Categories)

AllEntries == UNION { SeqRange(DBEntries(DBs[d])) : d \in DOMAIN DBs }

ResultShape(res) ==
    /\ res.Passed => res.Words = <<>> /\ res.Categories = <<>>
    /\ ~res.Passed =>
          /\ res.Words # <<>>
          /\ NoDuplicates(res.Words)
          /\ NoDuplicates(res.Categories)
          /\ DOMAIN res.Details = SeqRange(res.Words)
          /\ \A w \in SeqRange(res.Words) :
                \E p \in AllEntries : p.Word = w /\ res.Details[w] = DetailText(p)

C23_ResultShape ==
    [][/\ \A k \in DOMAIN cache' :
             (k \notin DOMAIN cache \/ cache'[k] # cache[k]) => ResultShape(cache'[k])
       /\ \A r \in Readers :
             (/\ rd'[r].pc \in {"set", "done"}
              /\ rd'[r].pc # rd[r].pc
              /\ ~rd'[r].result.panic) =>
                 /\ ResultShape(rd'[r].result)
                 /\ (rd[r].pc = "search" /\ ~rd'[r].result.Passed) =>
                       LET outs == SearchWithOptions(nodes, query.text,
                                       SearchOptions(query.options.Categories,
                                                     query.options.MinLevel)).out
                           res  == rd'[r].result
                       IN /\ InFirstOccurrenceOrder(res.Words,
                                                    [i \in 1..Len(outs) |-> outs[i].Word])
                          /\ InFirstOccurrenceOrder(res.Categories,
                                 Flatten([i \in 1..Len(outs) |-> outs[i].Categories]))
                          /\ \A w \in SeqRange(res.Words) :
                                \E i \in 1..Len(outs) :
                                    outs[i].Word = w /\ res.Details[w] = DetailText(outs[i])
      ]_vars

\* a computed result with two words and two categories, from a scan that
\* met a word again after it had met the other word
C23_Witness ==
    \E r \in Readers :
        /\ rd[r].pc = "done" /\ rd[r].computed
        /\ Len(rd[r].result.Words) = 2
        /\ Len(rd[r].result.Categories) = 2
        /\ LET outs == SearchWithOptions(FullBuild(rd[r].g.q), query.text,
                           SearchOptions(query.options.Categories,
                                         query.options.MinLevel)).out
           IN \E i, j, k \in 1..Len(outs) :
                 i < j /\ j < k /\ outs[i].Word = outs[k].Word /\ outs[j].Word # outs[i].Word

(***************************************************************************)
(* C24 - exact search result: on an automaton built by Clear, AddWord      *)
(* calls and one BuildFailPointers, Search(text) is the sequence of the    *)
(* naive scan: for each position of the text from left to right, the       *)
(* inserted patterns whose word ends at that position, the longest word    *)
(* first, once per AddWord call that inserted it (in the order of the      *)
(* calls).                                                                 *)
(***************************************************************************)
\* the AddWord calls that inserted word w, in order
InsertedAs(w) == SelectSeq(added, LAMBDA p : p.Word = w)

\* the patterns ending at position i of text, for the lengths len down to 1
RECURSIVE EndingAt(_, _, _)
EndingAt(text, i, len) ==
    IF len = 0 THEN <<>>
    ELSE InsertedAs(SubSeq(text, i - len + 1, i)) \o EndingAt(text, i, len - 1)

NaiveSearch(text) == Flatten([i \in 1..Len(text) |-> EndingAt(text, i, i)])

C24_ExactSearch ==
    (acLast.op = "Search" /\ BuiltOnce) =>
        /\ ~acLast.res.panic
        /\ acLast.res.out = NaiveSearch(acLast.text)

\* a position of the text at which two patterns of different lengths end,
\* after a position at which one ends
C24_Witness ==
    /\ acLast.op = "Search" /\ BuiltOnce
    /\ Len(acLast.text) = 3
    /\ Len(EndingAt(acLast.text, 3, 3)) = 2
    /\ Len(EndingAt(acLast.text, 1, 1)) = 1
    /\ Len(acLast.res.out) = 3

(***************************************************************************)
(* C25 - SearchWithOptions is Search followed by the option filter: on a   *)
(* built automaton, SearchWithOptions(text, options) is the subsequence of *)
(* Search(text) of the results with Level >= MinLevel and, when the        *)
(* options name categories, a category among them, in the same order;      *)
(* with no categories and MinLevel not above any inserted level it is      *)
(* Search(text).                                                           *)
(***************************************************************************)
PassesOptionFilter(o, options) ==
    /\ o.Level >= options.MinLevel
    /\ \/ options.Categories = <<>>
       \/ SeqRange(options.Categories) \cap SeqRange(o.Categories) # {}

C25_SearchThenFilter ==
    (acLast.op = "SearchWithOptions" /\ Built) =>
        LET all == Search(nodes, acLast.text)
        IN /\ ~acLast.res.panic /\ ~all.panic
           /\ acLast.res.out =
                 SelectSeq(all.out, LAMBDA o : PassesOptionFilter(o, acLast.options))
           /\ (/\ acLast.options.Categories = <<>>
               /\ \A i \in 1..Len(added) : acLast.options.MinLevel <= added[i].Level)
                 => acLast.res.out = all.out

\* options with categories kept one result of the search, dropped another
\* by its categories, and kept it in its place
C25_Witness ==
    /\ acLast.op = "SearchWithOptions" /\ Built
    /\ acLast.options.Categories # <<>>
    /\ acLast.res.out # <<>>
    /\ \E o \in SeqRange(Search(nodes, acLast.text).out) :
          /\ o.Level >= acLast.options.MinLevel
          /\ SeqRange(acLast.options.Categories) \cap SeqRange(o.Categories) = {}

(***************************************************************************)
(* C26 - failure links: on an automaton on which BuildFailPointers ran     *)
(* after the last AddWord or Clear, the root has a nil failure link and    *)
(* the failure link of every other node is the node of the longest proper  *)
(* suffix of its path that is a path of the trie (the root when only the   *)
(* empty suffix is); so every link leads to a node nearer the root.        *)
(***************************************************************************)
LongestProperSuffixIn(n, paths) ==
    CHOOSE s \in paths :
        /\ Len(s) < Len(n) /\ IsSuffix(s, n)
        /\ \A s2 \in paths : (Len(s2) < Len(n) /\ IsSuffix(s2, n)) => Len(s2) <= Len(s)

C26_FailureLinks ==
    Built =>
        /\ nodes[Root].fail = NilNode
        /\ \A n \in DOMAIN nodes \ {Root} :
              /\ nodes[n].fail = LongestProperSuffixIn(n, DOMAIN nodes)
              /\ nodes[n].fail \in DOMAIN nodes
              /\ Len(nodes[n].fail) < Len(n)

\* a built trie with a node of depth three whose link leads to a node of
\* depth one: the failure chain of its parent was followed for two hops
C26_Witness ==
    /\ Built
    /\ \E n \in DOMAIN nodes : Len(n) = 2 /\ Len(nodes[n].fail) = 1
    /\ \E n \in DOMAIN nodes : Len(n) = 3 /\ Len(nodes[n].fail) = 1

(***************************************************************************)
(* C27 - search only on a built automaton: whenever a Filter call is about *)
(* to run the automaton search, BuildFailPointers has run since the last   *)
(* AddWord or Clear - every node but the root has a failure link and the   *)
(* outputs of its suffixes - and no update is inside updateWordDatabase,   *)
(* however Filter calls, pushed updates and timer reloads interleave.      *)
(***************************************************************************)
C27_SearchOnBuilt ==
    \A r \in Readers :
        rd[r].pc = "search" =>
            /\ Built
            /\ NoUpdateRunning
            /\ HoldsExactly(nodes, added)
            /\ ~Search(nodes, query.text).panic

\* a Filter call about to search the automaton the second update built
C27_Witness ==
    \E r \in Readers :
        /\ rd[r].pc = "search"
        /\ \A u \in Updaters : up[u].n = 1
        /\ GetNodeCount(nodes) > 0

\* options that agree on every field, the categories taken as a set
SameOptionsUpToOrder(o1, o2) ==
    /\ o1.EnableWhitelist = o2.EnableWhitelist
    /\ o1.MinLevel = o2.MinLevel
    /\ o1.ReplaceMode = o2.ReplaceMode
    /\ SeqRange(o1.Categories) = SeqRange(o2.Categories)

(***************************************************************************)
(* C28 - the fingerprint is order-independent: two Filter calls with the   *)
(* same text and with options that have the same enableWhitelist, minLevel *)
(* and set of categories get the same cache key, whatever the order the    *)
(* categories are listed in, and with the cache on the later call is       *)
(* answered by the cache.                                                  *)
(***************************************************************************)
C28_OrderIndependentKey ==
    \A i, j \in 1..Len(checks) :
        (/\ i < j
         /\ checks[i].text = checks[j].text
         /\ SameOptionsUpToOrder(checks[i].options, checks[j].options))
        => /\ checks[i].key = checks[j].key
           /\ cfg.EnableCache => checks[j].hit

\* the automata updateWordDatabase may build from a database: one for every
\* order in which its categorised entries may be visited
BuildsOf(db) == { DBQueue(db, order) : order \in Perms(DOMAIN db.Categories) }

(***************************************************************************)
(* C29 - the build is deterministic: for a fixed database every update     *)
(* builds the same automaton, so a Filter call that computes its result    *)
(* returns the same words, categories and details whatever the order in    *)
(* which the categorised entries of the database were visited.             *)
(***************************************************************************)
C29_DeterministicBuild ==
    \A r \in Readers :
        (rd[r].pc \in {"set", "done"} /\ rd[r].computed /\ ~rd[r].result.panic) =>
            \A d \in DOMAIN DBs :
                rd[r].g.q \in BuildsOf(DBs[d]) =>
                    \A queue \in BuildsOf(DBs[d]) :
                        rd[r].result = doFilter(FullBuild(queue), rd[r].g.wl, cfg,
                                                query.text, query.options)

\* the distinct non-empty prefixes of the words of a sequence of entries
PrefixesOf(entries) == UNION { WordPrefixes(p.Word) : p \in SeqRange(entries) }

(***************************************************************************)
(* C30 - GetNodeCount returns the number of trie nodes other than the      *)
(* root, which is the number of distinct non-empty prefixes of the words   *)
(* inserted since the last Clear; BuildFailPointers, a search, and the     *)
(* insertion of a word that is already present leave it unchanged.         *)
(***************************************************************************)
C30_NodeCount ==
    [][/\ GetNodeCount(nodes') = Cardinality(DOMAIN nodes' \ {Root})
       /\ GetNodeCount(nodes') = Cardinality(PrefixesOf(added'))
       /\ builds' = builds + 1 => GetNodeCount(nodes') = GetNodeCount(nodes)
       /\ acLast'.op \in {"Search", "SearchWithOptions"}
             => GetNodeCount(nodes') = GetNodeCount(nodes)
       /\ (/\ Len(added') = Len(added) + 1
           /\ \E i \in 1..Len(added) : added[i].Word = added'[Len(added')].Word)
             => GetNodeCount(nodes') = GetNodeCount(nodes)]_vars

\* a word of two characters inserted twice, then a build and a search: two
\* nodes for two insertions
C30_Witness ==
    /\ acLast.op = "Search"
    /\ builds >= 1
    /\ Len(added) = 2
    /\ added[1].Word = added[2].Word
    /\ Len(added[1].Word) = 2
    /\ GetNodeCount(nodes) = 2

(***************************************************************************)
(* C31 - shutdown stops periodic reloading: once Close has returned, the   *)
(* reload goroutine starts no further cycle of fetching the database and   *)
(* updating from it.                                                       *)
(***************************************************************************)
C31_CloseStopsReloads ==
    [][rl.close = "done" => ~(rl.loop = "select" /\ rl'.loop = "load")]_vars

\* what the call of a searching goroutine returns when it runs alone
SearchAlone(call) ==
    IF call.kind = "Search" THEN Search(nodes, call.text)
    ELSE SearchWithOptions(nodes, call.text, call.options)

(***************************************************************************)
(* C32 - searches are read-only and independent: with no mutation going    *)
(* on, every step of any number of Search and SearchWithOptions calls      *)
(* running at once on a built automaton leaves the trie, its failure       *)
(* links, its outputs and the node count as they were, and every call      *)
(* returns what the same call returns when it runs alone.                  *)
(***************************************************************************)
C32_SearchesIndependent ==
    [][srch' # srch =>
          /\ nodes' = nodes
          /\ GetNodeCount(nodes') = GetNodeCount(nodes)
          /\ \A s \in Searchers :
                /\ srch'[s].pc # "panicked"
                /\ (srch[s].pc = "loop" /\ srch'[s].pc = "done") =>
                      Found(srch'[s].results) = SearchAlone(srch'[s])]_vars

\* a search with options returns fewer outputs than a search of the same
\* text that ran its loop at the same time
C32_Witness ==
    \E s1, s2 \in Searchers :
        /\ srch[s1].pc = "done" /\ srch[s1].kind = "Search"
        /\ srch[s2].pc = "done" /\ srch[s2].kind = "SearchWithOptions"
        /\ srch[s1].text = srch[s2].text
        /\ Len(srch[s2].results) > 0
        /\ Len(srch[s1].results) > Len(srch[s2].results)

(***************************************************************************)
(* C33 - progress: with every goroutine scheduled fairly and every lock    *)
(* granted to a goroutine that waits for it, every call of Filter,         *)
(* GetStats, HealthCheck, AddToWhitelist, RemoveFromWhitelist and          *)
(* UpdateDatabase that was started returns, however the calls interleave.  *)
(***************************************************************************)
C33_EveryCallReturns ==
    \A c \in Callers :
        (lk.call[c].state = "running") ~> (lk.call[c].state = "returned")

\* the same, a call that panics counted as ended: no call waits forever for
\* a lock
CallsEndUnlessDeadlocked ==
    \A c \in Callers :
        (lk.call[c].state = "running") ~> (lk.call[c].state \in {"returned", "panicked"})

(***************************************************************************)
(* C34 - HealthCheck never observes a half-rebuilt automaton: the current  *)
(* generation and every database applied hold a non-empty pattern, so a    *)
(* HealthCheck call, also one that runs during an update, never reports    *)
(* "automaton is empty".                                                   *)
(***************************************************************************)
C34_NeverReportsEmpty ==
    (/\ hc.pc = "done"
     /\ \A d \in DOMAIN DBs : NonEmptyEntries(DBEntries(DBs[d])) # <<>>)
    => hc.err # <<"automaton is empty">>

(***************************************************************************)
(* C35 - stats are a consistent snapshot: the version, lastUpdate,         *)
(* nodeCount and whitelistSize a GetStats call returns all belong to one   *)
(* generation, the one in force when the call took the lock - also when    *)
(* the call overlaps an update - and the version is the version tag of     *)
(* the automaton.                                                          *)
(***************************************************************************)
C35_StatsSnapshot ==
    st.pc = "done" =>
        /\ st.version = st.acVersion
        /\ st.nodeCount = GetNodeCount(FullBuild(st.gen0.q))
        /\ st.whitelistSize = Cardinality(st.gen0.wl)
        /\ \E d \in DOMAIN DBs :
              /\ st.gen0.q \in BuildsOf(DBs[d])
              /\ st.version = DBs[d].Version
              /\ st.lastUpdate = DBs[d].UpdateTime

\* the second call has returned the second generation: an update ran between
\* the first call's RUnlock and the second call's RLock
C35_Witness ==
    /\ st.pc = "done"
    /\ st.n = 2
    /\ st.version = "v2"
    /\ st.whitelistSize > 0
    /\ st.nodeCount > 0

(***************************************************************************)
(* C36 - no generation regression: once every load in flight has finished, *)
(* the active generation is the database the centre published last; a      *)
(* reload that fetched an earlier publication does not replace a later one *)
(* that the push callback applied.                                         *)
(***************************************************************************)
C36_NoRegression ==
    (NoUpdateRunning /\ \A u \in Updaters : ~Loaded(u)) =>
        version = DBs[pub.cur].Version

\* the fields of the options the claim names
SameQuery(c1, c2) ==
    /\ c1.text = c2.text
    /\ c1.options.EnableWhitelist = c2.options.EnableWhitelist
    /\ c1.options.MinLevel = c2.options.MinLevel
    /\ c1.options.Categories = c2.options.Categories

(***************************************************************************)
(* C37 - cache keys do not conflate different queries: two Filter calls    *)
(* that get the same key have the same text and options with the same      *)
(* enableWhitelist, minLevel and list of categories, and a call answered   *)
(* by the cache gets the result an earlier call of the same query          *)
(* computed.                                                               *)
(***************************************************************************)
C37_KeysDoNotConflate ==
    \A j \in 1..Len(checks) :
        /\ \A i \in 1..Len(checks) :
              checks[i].key = checks[j].key => SameQuery(checks[i], checks[j])
        /\ checks[j].hit =>
              \E i \in 1..(j - 1) : /\ SameQuery(checks[i], checks[j])
                                    /\ checks[i].result = checks[j].result

\* word is one of the tokens isInWhitelist looks up for text
IsTokenOf(word, text) ==
    LET words == Fields(ToLower(NormalizeText(text)))
    IN \E i \in 1..Len(words) : words[i] = word

(***************************************************************************)
(* C38 - whitelist removal takes effect on the next call: when a text that *)
(* contains a blacklisted pattern passed only because its token w was      *)
(* whitelisted, the next Filter call with the same text and options after  *)
(* RemoveFromWhitelist(w) returned does not pass, with the cache on or     *)
(* off.                                                                    *)
(***************************************************************************)
C38_RemovalTakesEffect ==
    [][(Len(checks) >= 1 /\ Len(checks') = Len(checks) + 1) =>
         LET prev == checks[Len(checks)]
             new  == checks'[Len(checks')]
             w    == ToLower(wlLast.word)
         IN (/\ new.text = prev.text
             /\ new.options = prev.options
             /\ prev.result.Passed
             /\ isInWhitelist(prev.wl, prev.text)
             /\ IsTokenOf(w, prev.text)
             /\ wlLast.op = "remove"
             /\ wlLast.before = prev.wl
             /\ whitelist = prev.wl \ {w}
             /\ ~isInWhitelist(whitelist, new.text)
             /\ ~doFilter(nodes, {}, cfg, new.text, new.options).Passed)
            => ~new.result.Passed]_vars

\* the words that equal word up to letter case
CaseVariants(word) == { w2 \in WlOpWords \cup {ToLower(word)} : ToLower(w2) = ToLower(word) }

\* the call increases the count of whitelist calls
WlOpStep(op) == nWlOps' = nWlOps + 1 /\ wlLast'.op = op

(***************************************************************************)
(* C39 - whitelist membership is case-insensitive and add/remove           *)
(* round-trips: AddToWhitelist(w) of a word absent from the whitelist      *)
(* makes the whitelist check succeed for every w2 equal to w up to letter  *)
(* case, as the full text and, where w2 is one token, as a token of a      *)
(* longer text; a following RemoveFromWhitelist(w2) leaves the set as it   *)
(* was before the add; every stored entry is lower-case.                   *)
(***************************************************************************)
C39_WhitelistRoundTrip ==
    [][/\ \A e \in whitelist \cup whitelist' : e = ToLower(e)
       /\ (WlOpStep("add") /\ ToLower(wlLast'.word) \notin whitelist) =>
             \A w2 \in CaseVariants(wlLast'.word) :
                 /\ isInWhitelist(whitelist', w2)
                 /\ Fields(w2) = <<w2>> => isInWhitelist(whitelist', <<"c", " ">> \o w2)
       /\ (/\ WlOpStep("remove")
           /\ wlLast.op = "add"
           /\ ToLower(wlLast.word) \notin wlLast.before
           /\ wlLast'.word \in CaseVariants(wlLast.word)
           /\ whitelist = wlLast.before \cup {ToLower(wlLast.word)}) =>
             whitelist' = wlLast.before]_vars

\* "ab" was added to the empty whitelist and RemoveFromWhitelist("Ab") has
\* emptied it again
C39_Witness ==
    /\ nWlOps = 2
    /\ nUpdates = 0
    /\ wlLast.op = "remove"
    /\ wlLast.word = <<"A", "b">>
    /\ wlLast.before = { <<"a", "b">> }
    /\ whitelist = {}

====
